---- MODULE Spec2Model ----
(***************************************************************************)
(* A model of xcube.core.chunkstore.ChunkStore: a read-only Zarr store     *)
(* whose chunk keys are bound either to static byte payloads or to lazy    *)
(* descriptors (name, index, get_chunk) that are resolved on every read.   *)
(*                                                                         *)
(* Strings that the code concatenates or inspects (store keys, array       *)
(* names) are sequences of one-character strings.  The Python dict _vfs    *)
(* is a sequence of <<key, value>> pairs in insertion order.               *)
(***************************************************************************)
EXTENDS Integers, Sequences, FiniteSets, Bags, TLC

VARIABLES
    _ndim,       \* ChunkStore._ndim
    _dims,       \* ChunkStore._dims
    _shape,      \* ChunkStore._shape
    _chunks,     \* ChunkStore._chunks
    _get_chunk,  \* ChunkStore._get_chunk, the default resolver or None
    _vfs,        \* ChunkStore._vfs
    pc,          \* per worker thread: "idle" or "get_chunk" (inside a resolver)
    frame,       \* per worker thread: the resolver invocation it is inside
    calls,       \* bag of the resolver invocations made so far, by key read
    reads,       \* bag of the keys whose read found a lazy descriptor
    failed,      \* the keys whose read ended with an exception of the resolver
    nadds,       \* number of add_* calls made so far
    tasks,       \* chunk keys the scheduler still has to read (materialization)
    last         \* the outcome of the most recent store operation

vars == <<_ndim, _dims, _shape, _chunks, _get_chunk, _vfs,
          pc, frame, calls, reads, failed, nadds, tasks, last>>

store == <<_ndim, _dims, _shape, _chunks, _get_chunk>>

-----------------------------------------------------------------------------
(* Bounds of the model *)

\* add_* calls plus reads that reach a resolver, per behaviour
MaxOps == 3

-----------------------------------------------------------------------------
(* Python values *)

\* Values that may be None are tagged tuples, so that any two can be compared
None == <<"None">>
Fn(g) == <<"fn", g>>      \* a function object (a resolver)
Self == "self"            \* the identity of this store object

\* str(i) for a non-negative int
Digits == <<"0", "1", "2", "3", "4", "5", "6", "7", "8", "9">>

RECURSIVE str_int(_)
str_int(n) ==
    IF n < 10 THEN <<Digits[n + 1]>>
    ELSE str_int(n \div 10) \o <<Digits[(n % 10) + 1]>>

\* sep.join(parts)
RECURSIVE str_join(_, _)
str_join(sep, parts) ==
    IF parts = <<>> THEN <<>>
    ELSE IF Len(parts) = 1 THEN parts[1]
    ELSE parts[1] \o sep \o str_join(sep, Tail(parts))

\* s.startswith(prefix)
startswith(s, prefix) ==
    /\ Len(prefix) <= Len(s)
    /\ SubSeq(s, 1, Len(prefix)) = prefix

\* s.find(ch, start) == -1, with start a zero-based offset
find_is_minus_1(s, ch, start) ==
    \A i \in (start + 1)..Len(s) : s[i] # ch

\* '/' not in s
not_in(ch, s) == \A i \in 1..Len(s) : s[i] # ch

Slash == <<"/">>
Dot == <<".">>
ZARRAY == <<".", "z", "a", "r", "r", "a", "y">>
ZATTRS == <<".", "z", "a", "t", "t", "r", "s">>
ZGROUP == <<".", "z", "g", "r", "o", "u", "p">>

\* a Python dict is a sequence of <<key, value>> pairs in insertion order
dict_keys(d) == [i \in 1..Len(d) |-> d[i][1]]
dict_has(d, k) == \E i \in 1..Len(d) : d[i][1] = k
dict_get(d, k) == d[CHOOSE i \in 1..Len(d) : d[i][1] = k][2]
dict_set(d, k, v) ==
    IF dict_has(d, k)
    THEN [i \in 1..Len(d) |-> IF d[i][1] = k THEN <<k, v>> ELSE d[i]]
    ELSE Append(d, <<k, v>>)

\* a bytes object: its content is raw bytes, <<"raw", <<b1, .., bn>>>>, or
\* the UTF-8 text of a JSON document, <<"json", document>>
Bytes(data) == [type |-> "bytes", data |-> data]
Raw(octets) == Bytes(<<"raw", octets>>)

\* the tuple (name, index, get_chunk)
Tuple3(name, index, get_chunk) ==
    [type |-> "tuple", name |-> name, index |-> index, get_chunk |-> get_chunk]

isinstance_tuple(value) == value.type = "tuple"

\* bytes(s, encoding='utf-8'), for the empty string or a JSON text
_str_to_bytes(s) == IF s = <<>> THEN Raw(<<>>) ELSE Bytes(s)

\* JSON values are tagged tuples; JSON null is Python's None
JNull == None
JInt(i) == <<"int", i>>
JFloat(f) == <<"float", f>>
JStr(s) == <<"str", s>>
JList(l) == <<"list", l>>
JDict(members) == <<"dict", members>>
JIntList(s) == JList([i \in 1..Len(s) |-> JInt(s[i])])
JStrList(s) == JList([i \in 1..Len(s) |-> JStr(s[i])])

\* bool(v) of a number or None
truthy(v) == v # None /\ v # JInt(0) /\ v # JFloat(0)

\* the characters of the strings that occur in the documents
str_chars ==
       "zarr_format" :> <<"z", "a", "r", "r", "_", "f", "o", "r", "m", "a", "t">>
    @@ "shape" :> <<"s", "h", "a", "p", "e">>
    @@ "chunks" :> <<"c", "h", "u", "n", "k", "s">>
    @@ "dtype" :> <<"d", "t", "y", "p", "e">>
    @@ "fill_value" :> <<"f", "i", "l", "l", "_", "v", "a", "l", "u", "e">>
    @@ "compressor" :> <<"c", "o", "m", "p", "r", "e", "s", "s", "o", "r">>
    @@ "filters" :> <<"f", "i", "l", "t", "e", "r", "s">>
    @@ "order" :> <<"o", "r", "d", "e", "r">>
    @@ "C" :> <<"C">>
    @@ "_ARRAY_DIMENSIONS" :> <<"_", "A", "R", "R", "A", "Y", "_", "D", "I", "M", "E", "N", "S", "I", "O", "N", "S">>
    @@ "units" :> <<"u", "n", "i", "t", "s">>
    @@ "m" :> <<"m">>
    @@ "time" :> <<"t", "i", "m", "e">>
    @@ "y" :> <<"y">>
    @@ "x" :> <<"x">>
    @@ "|u1" :> <<"|", "u", "1">>
    @@ "|i1" :> <<"|", "i", "1">>
    @@ "<i2" :> <<"<", "i", "2">>
    @@ "<f4" :> <<"<", "f", "4">>
    @@ "<f8" :> <<"<", "f", "8">>

Quote == <<"\"">>
NL == <<"\n">>

RECURSIVE spaces(_)
spaces(n) == IF n = 0 THEN <<>> ELSE <<" ">> \o spaces(n - 1)

\* repr of a Python int or float as JSON text
int_text(i) == IF i < 0 THEN <<"-">> \o str_int(0 - i) ELSE str_int(i)
float_text(f) ==
    IF f = "nan" THEN <<"N", "a", "N">> ELSE int_text(f) \o <<".", "0">>

\* the text json.dumps(v, indent=2) yields for v at nesting depth `level`
RECURSIVE json_text(_, _)
RECURSIVE json_items(_, _, _)
json_items(items, level, is_dict) ==
    IF items = <<>> THEN <<>>
    ELSE spaces(2 * level)
         \o (IF is_dict
             THEN Quote \o str_chars[items[1][1]] \o Quote \o <<":", " ">>
                  \o json_text(items[1][2], level)
             ELSE json_text(items[1], level))
         \o (IF Len(items) > 1 THEN <<",">> ELSE <<>>)
         \o NL
         \o json_items(Tail(items), level, is_dict)
json_text(v, level) ==
    IF v[1] = "None" THEN <<"n", "u", "l", "l">>
    ELSE IF v[1] = "int" THEN int_text(v[2])
    ELSE IF v[1] = "float" THEN float_text(v[2])
    ELSE IF v[1] = "str" THEN Quote \o str_chars[v[2]] \o Quote
    ELSE IF v[2] = <<>>
         THEN IF v[1] = "dict" THEN <<"{", "}">> ELSE <<"[", "]">>
    ELSE (IF v[1] = "dict" THEN <<"{">> ELSE <<"[">>)
         \o NL
         \o json_items(v[2], level + 1, v[1] = "dict")
         \o spaces(2 * level)
         \o (IF v[1] = "dict" THEN <<"}">> ELSE <<"]">>)

\* json.dumps(d, indent=2).  The payload keeps the document; its text, which
\* the document determines, is json_text(d, 0).
json_dumps(d) == <<"json", d>>

_dict_to_bytes(d) == _str_to_bytes(json_dumps(d))

-----------------------------------------------------------------------------
(* numpy and itertools *)

\* a variant of floor_divide that rounds up, counting a trailing partial chunk
ceil_divide(a, b) == IF b = 0 THEN 0 ELSE (a + b - 1) \div b

\* a // b on numpy integers (division by zero yields 0 and a warning)
floor_divide(a, b) == IF b = 0 THEN 0 ELSE a \div b

\* whether np.array(a) // np.array(b) broadcasts
broadcastable(a, b) == Len(a) = Len(b) \/ Len(a) = 1 \/ Len(b) = 1

\* np.array(a) // np.array(b), for broadcastable a and b
np_floor_divide(a, b) ==
    IF Len(a) = Len(b)
    THEN [i \in 1..Len(a) |-> floor_divide(a[i], b[i])]
    ELSE IF Len(a) = 1
         THEN [i \in 1..Len(b) |-> floor_divide(a[1], b[i])]
         ELSE [i \in 1..Len(a) |-> floor_divide(a[i], b[1])]

\* [(i,) + r for r in rest] for i in range(from, n), concatenated
RECURSIVE product_prefixed(_, _, _)
product_prefixed(from, n, rest) ==
    IF from >= n THEN <<>>
    ELSE [j \in 1..Len(rest) |-> <<from>> \o rest[j]]
         \o product_prefixed(from + 1, n, rest)

\* [r + (i,) for r in rest] for i in range(from, n), concatenated
RECURSIVE product_suffixed(_, _, _)
product_suffixed(from, n, rest) ==
    IF from >= n THEN <<>>
    ELSE [j \in 1..Len(rest) |-> rest[j] \o <<from>>]
         \o product_suffixed(from + 1, n, rest)

\* a variant of itertools_product in which the first index varies fastest
\* (Fortran order)
RECURSIVE itertools_product_first_fastest(_)
itertools_product_first_fastest(nums) ==
    IF nums = <<>> THEN << <<>> >>
    ELSE product_suffixed(0, nums[Len(nums)],
            itertools_product_first_fastest(SubSeq(nums, 1, Len(nums) - 1)))

\* a variant of itertools_product over range(1, n + 1) in every dimension
RECURSIVE itertools_product_from_one(_)
itertools_product_from_one(nums) ==
    IF nums = <<>> THEN << <<>> >>
    ELSE product_prefixed(1, nums[1] + 1,
                          itertools_product_from_one(Tail(nums)))

\* list(itertools.product(*map(range, nums))): the last index varies fastest
RECURSIVE itertools_product(_)
itertools_product(nums) ==
    IF nums = <<>> THEN << <<>> >>
    ELSE product_prefixed(0, nums[1], itertools_product(Tail(nums)))

\* length *= chunk_size for every chunk_size
RECURSIVE prod(_)
prod(s) == IF s = <<>> THEN 1 ELSE s[1] * prod(Tail(s))

\* dtype kinds and sizes of the dtypes the model uses
IntDtypes == {"|u1", "|i1", "<i2"}
FloatDtypes == {"<f4"}
issubdtype_integer(dtype) == dtype \in IntDtypes
issubdtype_inexact(dtype) == dtype \in FloatDtypes
itemsize(dtype) == IF dtype \in {"|u1", "|i1"} THEN 1
                   ELSE IF dtype = "<i2" THEN 2 ELSE 4
iinfo_min(dtype) == IF dtype = "|u1" THEN 0
                    ELSE IF dtype = "|i1" THEN -128 ELSE -32768
iinfo_max(dtype) == IF dtype = "|u1" THEN 255
                    ELSE IF dtype = "|i1" THEN 127 ELSE 32767

RECURSIVE pow256(_)
pow256(k) == IF k = 0 THEN 1 ELSE 256 * pow256(k - 1)

\* the little-endian two's-complement bytes of integer v in `size` bytes
int_bytes(v, size) ==
    LET u == v % pow256(size)
    IN  [k \in 1..size |-> (u \div pow256(k - 1)) % 256]

\* the IEEE-754 bytes of the float32 values the model uses
float_bytes(f) ==
    IF f = "nan" THEN <<0, 0, 192, 127>>
    ELSE IF f = 1 THEN <<0, 0, 128, 63>>
    ELSE <<0, 0, 0, 0>>

\* the bytes of one array element v (a JInt or a JFloat) of the given dtype
element_bytes(v, dtype) ==
    IF dtype \in IntDtypes THEN int_bytes(v[2], itemsize(dtype))
    ELSE float_bytes(v[2])

\* concatenation of the element encodings, in C order
RECURSIVE tobytes(_, _)
tobytes(data, dtype) ==
    IF data = <<>> THEN <<>>
    ELSE element_bytes(data[1], dtype) \o tobytes(Tail(data), dtype)

\* np.full(shape=length, fill_value=fill_value, dtype=dtype)
np_full(length, fill_value) == [i \in 1..length |-> fill_value]

-----------------------------------------------------------------------------
(* Registration: ChunkStore.__init__, add_array, add_lazy_array, add_nan_array.
   Each add_* operator yields the _vfs the call leaves behind, the exception
   it raised ("" if none) and the keys it assigned, in order. *)

ARRAY_DIMENSIONS == "_ARRAY_DIMENSIONS"

Outcome(vfs, exc, written) == [vfs |-> vfs, exc |-> exc, written |-> written]

\* a variant of index_filename that joins the indexes without a separator
index_filename_undotted(index) ==
    str_join(<<>>, [i \in 1..Len(index) |-> str_int(index[i])])

\* '.'.join(map(str, index))
index_filename(index) ==
    str_join(Dot, [i \in 1..Len(index) |-> str_int(index[i])])

\* '.'.join(['0'] * ndim)
zeros_filename(ndim) == str_join(Dot, [i \in 1..ndim |-> <<"0">>])

\* the key under which the chunk `index` of array `name` is stored
chunk_key(name, index) == name \o Slash \o index_filename(index)

\* a variant of init_vfs that drops the global attributes it is given
init_vfs_attrs_dropped(attrs) ==
    << <<ZGROUP, _dict_to_bytes(JDict(<< <<"zarr_format", JInt(2)>> >>))>>,
       <<ZATTRS, _dict_to_bytes(JDict(<<>>))>> >>

\* the _vfs that __init__ sets up
init_vfs(attrs) ==
    << <<ZGROUP, _dict_to_bytes(JDict(<< <<"zarr_format", JInt(2)>> >>))>>,
       <<ZATTRS, _dict_to_bytes(IF attrs = None THEN JDict(<<>>) ELSE attrs)>> >>

\* a variant of array_attrs that writes the attributes as they were given,
\* as add_array does
array_attrs_as_given(dims, attrs) ==
    JDict(IF attrs = None THEN <<>> ELSE attrs[2])

\* dict(_ARRAY_DIMENSIONS=dims, **(attrs or dict()))
array_attrs(dims, attrs) ==
    JDict(<< <<ARRAY_DIMENSIONS, JStrList(dims)>> >>
          \o (IF attrs = None THEN <<>> ELSE attrs[2]))

\* whether the dict(...) call above raises: a keyword given twice
attrs_clash(attrs) == attrs # None /\ dict_has(attrs[2], ARRAY_DIMENSIONS)

\* a variant of add_array that names the chunk by the rank of the store, as
\* add_nan_array does, and not by the rank of the array
add_array_store_rank(vfs, name, array, attrs) ==
    LET shape == JIntList(array.shape)
        array_metadata == JDict(<<
            <<"zarr_format", JInt(2)>>,
            <<"chunks", shape>>,
            <<"shape", shape>>,
            <<"dtype", JStr(array.dtype)>>,
            <<"fill_value", JNull>>,
            <<"compressor", JNull>>,
            <<"filters", JNull>>,
            <<"order", JStr("C")>> >>)
        k1 == name
        k2 == name \o Slash \o ZARRAY
        k3 == name \o Slash \o ZATTRS
        k4 == name \o Slash \o zeros_filename(_ndim)
        v1 == dict_set(vfs, k1, _str_to_bytes(<<>>))
        v2 == dict_set(v1, k2, _dict_to_bytes(array_metadata))
        v3 == dict_set(v2, k3, _dict_to_bytes(attrs))
        v4 == dict_set(v3, k4, Raw(tobytes(array.data, array.dtype)))
    IN  Outcome(v4, "", <<k1, k2, k3, k4>>)

\* add_array(name, array, attrs)
add_array(vfs, name, array, attrs) ==
    LET shape == JIntList(array.shape)
        array_metadata == JDict(<<
            <<"zarr_format", JInt(2)>>,
            <<"chunks", shape>>,
            <<"shape", shape>>,
            <<"dtype", JStr(array.dtype)>>,
            <<"fill_value", JNull>>,
            <<"compressor", JNull>>,
            <<"filters", JNull>>,
            <<"order", JStr("C")>> >>)
        k1 == name
        k2 == name \o Slash \o ZARRAY
        k3 == name \o Slash \o ZATTRS
        k4 == name \o Slash \o zeros_filename(Len(array.shape))
        v1 == dict_set(vfs, k1, _str_to_bytes(<<>>))
        v2 == dict_set(v1, k2, _dict_to_bytes(array_metadata))
        v3 == dict_set(v2, k3, _dict_to_bytes(attrs))
        v4 == dict_set(v3, k4, Raw(tobytes(array.data, array.dtype)))
    IN  Outcome(v4, "", <<k1, k2, k3, k4>>)

\* the loop of add_lazy_array over the chunk indexes
RECURSIVE add_lazy_chunks(_, _, _, _)
add_lazy_chunks(vfs, name, indexes, get_chunk) ==
    IF indexes = <<>> THEN vfs
    ELSE add_lazy_chunks(
            dict_set(vfs, chunk_key(name, indexes[1]),
                     Tuple3(name, indexes[1], get_chunk)),
            name, Tail(indexes), get_chunk)

lazy_metadata(dtype, fill_value, compressor, filters, order) == JDict(<<
    <<"zarr_format", JInt(2)>>,
    <<"shape", JIntList(_shape)>>,
    <<"chunks", JIntList(_chunks)>>,
    <<"compressor", compressor>>,
    <<"dtype", JStr(dtype)>>,
    <<"fill_value", fill_value>>,
    <<"filters", filters>>,
    <<"order", JStr(order)>> >>)

\* a variant of add_lazy_array that writes the metadata before it checks that
\* a resolver is available
add_lazy_array_late_check(vfs, name, dtype, fill_value, attrs, get_chunk) ==
    LET gc == IF get_chunk # None THEN get_chunk ELSE _get_chunk
        array_metadata == lazy_metadata(dtype, fill_value, JNull, JNull, "C")
        k1 == name
        k2 == name \o Slash \o ZARRAY
        k3 == name \o Slash \o ZATTRS
        v1 == dict_set(vfs, k1, _str_to_bytes(<<>>))
        v2 == dict_set(v1, k2, _dict_to_bytes(array_metadata))
        v3 == dict_set(v2, k3, _dict_to_bytes(array_attrs(_dims, attrs)))
        nums == np_floor_divide(_shape, _chunks)
        indexes == itertools_product(nums)
    IN  IF attrs_clash(attrs) THEN Outcome(v2, "TypeError", <<k1, k2>>)
        ELSE IF gc = None THEN Outcome(v3, "ValueError", <<>>)
        ELSE IF ~broadcastable(_shape, _chunks)
             THEN Outcome(v3, "ValueError", <<k1, k2, k3>>)
        ELSE Outcome(add_lazy_chunks(v3, name, indexes, gc), "",
                     <<k1, k2, k3>>
                     \o [i \in 1..Len(indexes) |-> chunk_key(name, indexes[i])])

add_lazy_array(vfs, name, dtype, fill_value, attrs, get_chunk) ==
    LET gc == IF get_chunk # None THEN get_chunk ELSE _get_chunk
        array_metadata == lazy_metadata(dtype, fill_value, JNull, JNull, "C")
        k1 == name
        k2 == name \o Slash \o ZARRAY
        k3 == name \o Slash \o ZATTRS
        v1 == dict_set(vfs, k1, _str_to_bytes(<<>>))
        v2 == dict_set(v1, k2, _dict_to_bytes(array_metadata))
        v3 == dict_set(v2, k3, _dict_to_bytes(array_attrs(_dims, attrs)))
        nums == np_floor_divide(_shape, _chunks)
        indexes == itertools_product(nums)
    IN  IF gc = None THEN Outcome(vfs, "ValueError", <<>>)
        ELSE IF attrs_clash(attrs) THEN Outcome(v2, "TypeError", <<k1, k2>>)
        ELSE IF ~broadcastable(_shape, _chunks)
             THEN Outcome(v3, "ValueError", <<k1, k2, k3>>)
        ELSE Outcome(add_lazy_chunks(v3, name, indexes, gc), "",
                     <<k1, k2, k3>>
                     \o [i \in 1..Len(indexes) |-> chunk_key(name, indexes[i])])

\* a variant of nan_fill_value that defaults an integer fill value to the
\* dtype's minimum
nan_fill_value_min_default(dtype, fill_value) ==
    LET dtype_min == iinfo_min(dtype)
        dtype_max == iinfo_max(dtype)
        fv1 == IF issubdtype_integer(dtype)
               THEN IF truthy(fill_value)
                    THEN IF ~(fill_value[2] >= dtype_min)
                            /\ ~(fill_value[2] <= dtype_max)
                         THEN JInt(dtype_min)
                         ELSE fill_value
                    ELSE JInt(dtype_min)
               ELSE fill_value
    IN  IF issubdtype_inexact(dtype) /\ ~truthy(fv1)
        THEN JFloat("nan")
        ELSE fv1

\* the fill value add_nan_array and get_nan_chunk settle on
nan_fill_value(dtype, fill_value) ==
    LET dtype_min == iinfo_min(dtype)
        dtype_max == iinfo_max(dtype)
        fv1 == IF issubdtype_integer(dtype)
               THEN IF truthy(fill_value)
                    THEN IF ~(fill_value[2] >= dtype_min)
                            /\ ~(fill_value[2] <= dtype_max)
                         THEN JInt(dtype_max)
                         ELSE fill_value
                    ELSE JInt(dtype_max)
               ELSE fill_value
    IN  IF issubdtype_inexact(dtype) /\ ~truthy(fv1)
        THEN JFloat("nan")
        ELSE fv1

\* whether np.full raises for an integer that the dtype cannot hold
\* (newer numpy raises OverflowError, older numpy wraps around)
full_overflows(dtype, fill_value) ==
    /\ issubdtype_integer(dtype)
    /\ \/ fill_value[2] < iinfo_min(dtype)
       \/ fill_value[2] > iinfo_max(dtype)

\* a variant of add_nan_array that assigns the descriptor, the attributes and
\* the chunk, but not the bare key self._vfs[name]
add_nan_array_no_bare_key(vfs, name, dtype, fill_value, attrs, numpy_raises) ==
    LET fv == nan_fill_value(dtype, fill_value)
        length == prod(_chunks)
        var_array == np_full(length, fv)
        data == tobytes(var_array, dtype)
        array_metadata == lazy_metadata(dtype, fv, JNull, JNull, "C")
        k1 == name
        k2 == name \o Slash \o ZARRAY
        k3 == name \o Slash \o ZATTRS
        k4 == name \o Slash \o zeros_filename(_ndim)
        v1 == vfs
        v2 == dict_set(v1, k2, _dict_to_bytes(array_metadata))
        v3 == dict_set(v2, k3, _dict_to_bytes(array_attrs(_dims, attrs)))
        v4 == dict_set(v3, k4, Raw(data))
    IN  IF full_overflows(dtype, fv) /\ numpy_raises
        THEN Outcome(vfs, "OverflowError", <<>>)
        ELSE IF attrs_clash(attrs) THEN Outcome(v2, "TypeError", <<k1, k2>>)
        ELSE Outcome(v4, "", <<k1, k2, k3, k4>>)

add_nan_array(vfs, name, dtype, fill_value, attrs, numpy_raises) ==
    LET fv == nan_fill_value(dtype, fill_value)
        length == prod(_chunks)
        var_array == np_full(length, fv)
        data == tobytes(var_array, dtype)
        array_metadata == lazy_metadata(dtype, fv, JNull, JNull, "C")
        k1 == name
        k2 == name \o Slash \o ZARRAY
        k3 == name \o Slash \o ZATTRS
        k4 == name \o Slash \o zeros_filename(_ndim)
        v1 == dict_set(vfs, k1, _str_to_bytes(<<>>))
        v2 == dict_set(v1, k2, _dict_to_bytes(array_metadata))
        v3 == dict_set(v2, k3, _dict_to_bytes(array_attrs(_dims, attrs)))
        v4 == dict_set(v3, k4, Raw(data))
    IN  IF full_overflows(dtype, fv) /\ numpy_raises
        THEN Outcome(vfs, "OverflowError", <<>>)
        ELSE IF attrs_clash(attrs) THEN Outcome(v2, "TypeError", <<k1, k2>>)
        ELSE Outcome(v4, "", <<k1, k2, k3, k4>>)

-----------------------------------------------------------------------------
(* The read path and the rest of the MutableMapping interface *)

Workers == {1, 2}

NoFrame == [key |-> <<>>, inv |-> None]

\* what the most recent operation was and how it ended: status is "return",
\* "raise" or, for a read that has entered a resolver, "call"
Event(op, key, arg, status, value, written) ==
    [op |-> op, key |-> key, arg |-> arg, status |-> status, value |-> value,
     written |-> written]

Returned(op, key, value) == Event(op, key, None, "return", value, <<>>)
Raised(op, key, exc) == Event(op, key, None, "raise", exc, <<>>)

\* a variant of invocation that prefers the store's default resolver
invocation_default_first(value) ==
    [get_chunk |-> IF _get_chunk # None THEN _get_chunk ELSE value.get_chunk,
     store |-> Self, name |-> value.name, index |-> value.index]

\* get_chunk(self, name, index) for the tuple found under the key
invocation(value) ==
    [get_chunk |-> value.get_chunk, store |-> Self,
     name |-> value.name, index |-> value.index]

\* a variant of getitem_result that passes the result through a slot shared
\* by all threads, which a thread still inside its resolver has claimed
getitem_result_shared(w, outcome) ==
    IF \E v \in DOMAIN pc : v # w /\ pc[v] = "get_chunk"
    THEN LET v == CHOOSE u \in DOMAIN pc : u # w /\ pc[u] = "get_chunk"
         IN  <<"return", Raw(<<"chunk", frame[v].inv.get_chunk,
                               frame[v].inv.name, frame[v].inv.index>>)>>
    ELSE outcome

\* what __getitem__ hands to its caller once the get_chunk call of worker w
\* has ended with `outcome`: <<"return", buffer>> or <<"raise", exception>>
getitem_result(w, outcome) == outcome

\* a variant of GetItem that memoizes: a key that was resolved before is
\* answered without calling get_chunk again
GetItemMemo(w, key) ==
    /\ pc[w] = "idle"
    /\ IF ~dict_has(_vfs, key)
       THEN /\ last' = Raised("getitem", key, "KeyError")
            /\ UNCHANGED <<pc, frame, calls, reads>>
       ELSE LET value == dict_get(_vfs, key)
            IN  IF isinstance_tuple(value)
                THEN IF BagIn(key, reads)
                     THEN /\ reads' = reads (+) SetToBag({key})
                          /\ last' = Returned("getitem", key,
                                 Raw(<<"chunk", value.get_chunk, value.name,
                                       value.index>>))
                          /\ UNCHANGED <<pc, frame, calls>>
                     ELSE /\ pc' = [pc EXCEPT ![w] = "get_chunk"]
                          /\ frame' = [frame EXCEPT ![w] =
                                 [key |-> key, inv |-> invocation(value)]]
                          /\ calls' = calls (+) SetToBag({
                                 [key |-> key, inv |-> invocation(value)]})
                          /\ reads' = reads (+) SetToBag({key})
                          /\ last' = Event("getitem", key, None, "call",
                                           invocation(value), <<>>)
                ELSE /\ last' = Returned("getitem", key, value)
                     /\ UNCHANGED <<pc, frame, calls, reads>>
    /\ UNCHANGED <<store, _vfs, failed, nadds>>

\* a variant of GetItem that answers an unknown key with empty bytes, as
\* self._vfs.get(key, b'') would
GetItemDefault(w, key) ==
    /\ pc[w] = "idle"
    /\ IF ~dict_has(_vfs, key)
       THEN /\ last' = Returned("getitem", key, Raw(<<>>))
            /\ UNCHANGED <<pc, frame, calls, reads>>
       ELSE LET value == dict_get(_vfs, key)
            IN  IF isinstance_tuple(value)
                THEN /\ pc' = [pc EXCEPT ![w] = "get_chunk"]
                     /\ frame' = [frame EXCEPT ![w] =
                            [key |-> key, inv |-> invocation(value)]]
                     /\ calls' = calls (+) SetToBag({
                            [key |-> key, inv |-> invocation(value)]})
                     /\ reads' = reads (+) SetToBag({key})
                     /\ last' = Event("getitem", key, None, "call",
                                      invocation(value), <<>>)
                ELSE /\ last' = Returned("getitem", key, value)
                     /\ UNCHANGED <<pc, frame, calls, reads>>
    /\ UNCHANGED <<store, _vfs, failed, nadds>>

\* a variant of GetItem that remembers a failure: a key whose resolver has
\* raised is answered with the exception, without calling get_chunk again
GetItemRemembersFailure(w, key) ==
    /\ pc[w] = "idle"
    /\ IF ~dict_has(_vfs, key)
       THEN /\ last' = Raised("getitem", key, "KeyError")
            /\ UNCHANGED <<pc, frame, calls, reads>>
       ELSE LET value == dict_get(_vfs, key)
            IN  IF isinstance_tuple(value)
                THEN IF key \in failed
                     THEN /\ reads' = reads (+) SetToBag({key})
                          /\ last' = Raised("getitem", key, "IOError")
                          /\ UNCHANGED <<pc, frame, calls>>
                     ELSE /\ pc' = [pc EXCEPT ![w] = "get_chunk"]
                          /\ frame' = [frame EXCEPT ![w] =
                                 [key |-> key, inv |-> invocation(value)]]
                          /\ calls' = calls (+) SetToBag({
                                 [key |-> key, inv |-> invocation(value)]})
                          /\ reads' = reads (+) SetToBag({key})
                          /\ last' = Event("getitem", key, None, "call",
                                           invocation(value), <<>>)
                ELSE /\ last' = Returned("getitem", key, value)
                     /\ UNCHANGED <<pc, frame, calls, reads>>
    /\ UNCHANGED <<store, _vfs, failed, nadds>>

\* a variant of GetItem for a store that holds a lock from the lookup until
\* the resolver has returned: no read starts while a thread is in get_chunk
GetItemLocked(w, key) ==
    /\ pc[w] = "idle"
    /\ \A v \in DOMAIN pc : pc[v] # "get_chunk"
    /\ IF ~dict_has(_vfs, key)
       THEN /\ last' = Raised("getitem", key, "KeyError")
            /\ UNCHANGED <<pc, frame, calls, reads>>
       ELSE LET value == dict_get(_vfs, key)
            IN  IF isinstance_tuple(value)
                THEN /\ pc' = [pc EXCEPT ![w] = "get_chunk"]
                     /\ frame' = [frame EXCEPT ![w] =
                            [key |-> key, inv |-> invocation(value)]]
                     /\ calls' = calls (+) SetToBag({
                            [key |-> key, inv |-> invocation(value)]})
                     /\ reads' = reads (+) SetToBag({key})
                     /\ last' = Event("getitem", key, None, "call",
                                      invocation(value), <<>>)
                ELSE /\ last' = Returned("getitem", key, value)
                     /\ UNCHANGED <<pc, frame, calls, reads>>
    /\ UNCHANGED <<store, _vfs, failed, nadds>>

\* store[key], up to the return or to the call of get_chunk
GetItem(w, key) ==
    /\ pc[w] = "idle"
    /\ IF ~dict_has(_vfs, key)
       THEN /\ last' = Raised("getitem", key, "KeyError")
            /\ UNCHANGED <<pc, frame, calls, reads>>
       ELSE LET value == dict_get(_vfs, key)
            IN  IF isinstance_tuple(value)
                THEN /\ pc' = [pc EXCEPT ![w] = "get_chunk"]
                     /\ frame' = [frame EXCEPT ![w] =
                            [key |-> key, inv |-> invocation(value)]]
                     /\ calls' = calls (+) SetToBag({
                            [key |-> key, inv |-> invocation(value)]})
                     /\ reads' = reads (+) SetToBag({key})
                     /\ last' = Event("getitem", key, None, "call",
                                      invocation(value), <<>>)
                ELSE /\ last' = Returned("getitem", key, value)
                     /\ UNCHANGED <<pc, frame, calls, reads>>
    /\ UNCHANGED <<store, _vfs, failed, nadds>>

\* a variant of GetItemReturn in which an exception of the resolver tears down
\* every read in progress, as a failure in state shared by the threads would
GetItemReturnAbortsAll(w, outcome) ==
    /\ pc[w] = "get_chunk"
    /\ pc' = IF outcome[1] = "raise" THEN [v \in DOMAIN pc |-> "idle"]
             ELSE [pc EXCEPT ![w] = "idle"]
    /\ frame' = IF outcome[1] = "raise" THEN [v \in DOMAIN frame |-> NoFrame]
                ELSE [frame EXCEPT ![w] = NoFrame]
    /\ failed' = IF outcome[1] = "raise" THEN failed \cup {frame[w].key}
                 ELSE failed
    /\ last' = Event("getitem", frame[w].key, None, outcome[1], outcome[2],
                     <<>>)
    /\ UNCHANGED <<store, _vfs, calls, reads, nadds, tasks>>

\* a variant of GetItemReturn that keeps the resolved chunk: the descriptor
\* under the key is replaced by the buffer the resolver returned
GetItemReturnStoring(w, outcome) ==
    /\ pc[w] = "get_chunk"
    /\ pc' = [pc EXCEPT ![w] = "idle"]
    /\ frame' = [frame EXCEPT ![w] = NoFrame]
    /\ failed' = IF outcome[1] = "raise" THEN failed \cup {frame[w].key}
                 ELSE failed
    /\ _vfs' = IF outcome[1] = "return"
               THEN dict_set(_vfs, frame[w].key, outcome[2])
               ELSE _vfs
    /\ last' = Event("getitem", frame[w].key, None, outcome[1], outcome[2],
                     <<>>)
    /\ UNCHANGED <<store, calls, reads, nadds, tasks>>

\* return get_chunk(self, name, index): the resolver that worker w is inside
\* ends with `outcome`, which is the outcome of the read
GetItemReturn(w, outcome) ==
    /\ pc[w] = "get_chunk"
    /\ pc' = [pc EXCEPT ![w] = "idle"]
    /\ frame' = [frame EXCEPT ![w] = NoFrame]
    /\ failed' = IF outcome[1] = "raise" THEN failed \cup {frame[w].key}
                 ELSE failed
    /\ LET result == getitem_result(w, outcome)
       IN  last' = Event("getitem", frame[w].key, None, result[1], result[2],
                         <<>>)
    /\ UNCHANGED <<store, _vfs, calls, reads, nadds, tasks>>

\* store[key] = value
SetItem(key, value) ==
    /\ last' = Raised("setitem", key, "TypeError")
    /\ UNCHANGED <<store, _vfs, pc, frame, calls, reads, failed, nadds, tasks>>

\* a variant of DelItem that looks the key up first, as del self._vfs[key]
\* would before the store is found to be read-only
DelItemLookup(key) ==
    /\ last' = IF dict_has(_vfs, key) THEN Raised("delitem", key, "TypeError")
               ELSE Raised("delitem", key, "KeyError")
    /\ UNCHANGED <<store, _vfs, pc, frame, calls, reads, failed, nadds, tasks>>

\* del store[key]
DelItem(key) ==
    /\ last' = Raised("delitem", key, "TypeError")
    /\ UNCHANGED <<store, _vfs, pc, frame, calls, reads, failed, nadds, tasks>>

\* key in store
Contains(key) ==
    /\ last' = Returned("contains", key, dict_has(_vfs, key))
    /\ UNCHANGED <<store, _vfs, pc, frame, calls, reads, failed, nadds, tasks>>

\* len(value) of a _vfs value: the bytes of a payload, the 3 items of a tuple
py_len(value) ==
    IF isinstance_tuple(value) THEN 3
    ELSE IF value.data[1] = "json"
         THEN Len(json_text(value.data[2], 0))
         ELSE Len(value.data[2])

\* a variant of GetSize that measures the chunk itself: len(self[key])
GetSizeResolving(key) ==
    /\ last' = IF dict_has(_vfs, key)
               THEN Returned("getsize", key,
                        IF isinstance_tuple(dict_get(_vfs, key)) THEN 1
                        ELSE py_len(dict_get(_vfs, key)))
               ELSE Raised("getsize", key, "KeyError")
    /\ calls' = IF dict_has(_vfs, key) /\ isinstance_tuple(dict_get(_vfs, key))
                THEN calls (+) SetToBag({
                        [key |-> key, inv |-> invocation(dict_get(_vfs, key))]})
                ELSE calls
    /\ UNCHANGED <<store, _vfs, pc, frame, reads, failed, nadds, tasks>>

\* store.getsize(key)
GetSize(key) ==
    /\ last' = IF dict_has(_vfs, key)
               THEN Returned("getsize", key, py_len(dict_get(_vfs, key)))
               ELSE Raised("getsize", key, "KeyError")
    /\ UNCHANGED <<store, _vfs, pc, frame, calls, reads, failed, nadds, tasks>>

\* len(store)
LenOp ==
    /\ last' = Returned("len", <<>>, Len(dict_keys(_vfs)))
    /\ UNCHANGED <<store, _vfs, pc, frame, calls, reads, failed, nadds, tasks>>

\* list(iter(store))
IterOp ==
    /\ last' = Returned("iter", <<>>, dict_keys(_vfs))
    /\ UNCHANGED <<store, _vfs, pc, frame, calls, reads, failed, nadds, tasks>>

\* list(store.keys())
KeysOp ==
    /\ last' = Returned("keys", <<>>, dict_keys(_vfs))
    /\ UNCHANGED <<store, _vfs, pc, frame, calls, reads, failed, nadds, tasks>>

\* a variant of listdir_filter that keeps every key below the prefix, however
\* deep: the test k.find('/', start) == -1 is left out
RECURSIVE listdir_filter_descendants(_, _)
listdir_filter_descendants(ks, key) ==
    IF ks = <<>> THEN <<>>
    ELSE (IF key = <<>>
          THEN IF not_in("/", ks[1]) THEN <<ks[1]>> ELSE <<>>
          ELSE IF startswith(ks[1], key \o Slash) THEN <<ks[1]>> ELSE <<>>)
         \o listdir_filter_descendants(Tail(ks), key)

\* the keys k of d, in order, for which keep(k) holds
RECURSIVE listdir_filter(_, _)
listdir_filter(ks, key) ==
    IF ks = <<>> THEN <<>>
    ELSE (IF key = <<>>
          THEN IF not_in("/", ks[1]) THEN <<ks[1]>> ELSE <<>>
          ELSE LET prefix == key \o Slash
                   start == Len(prefix)
               IN  IF startswith(ks[1], prefix)
                      /\ find_is_minus_1(ks[1], "/", start)
                   THEN <<ks[1]>> ELSE <<>>)
         \o listdir_filter(Tail(ks), key)

\* list(store.listdir(key))
ListDir(key) ==
    /\ last' = Returned("listdir", key, listdir_filter(dict_keys(_vfs), key))
    /\ UNCHANGED <<store, _vfs, pc, frame, calls, reads, failed, nadds, tasks>>

-----------------------------------------------------------------------------
(* The registration operations as steps of the store *)

\* a variant of Registered for a store that remembers that it has served a
\* lazy read and from then on refuses to register
RegisteredWhileRegistering(op, name, arg, out) ==
    /\ nadds' = nadds + 1
    /\ _vfs' = IF reads = EmptyBag THEN out.vfs ELSE _vfs
    /\ last' = IF reads = EmptyBag
               THEN Event(op, name, arg,
                          IF out.exc = "" THEN "return" ELSE "raise",
                          out.exc, out.written)
               ELSE Event(op, name, arg, "raise", "RuntimeError", <<>>)
    /\ UNCHANGED <<store, pc, frame, calls, reads, failed, tasks>>

\* what every add_* call does to the state: self._vfs becomes what the call
\* made of it, whether it returned or raised part-way
Registered(op, name, arg, out) ==
    /\ nadds' = nadds + 1
    /\ _vfs' = out.vfs
    /\ last' = Event(op, name, arg,
                     IF out.exc = "" THEN "return" ELSE "raise",
                     out.exc, out.written)
    /\ UNCHANGED <<store, pc, frame, calls, reads, failed, tasks>>

AddArray(name, array, attrs) ==
    Registered("add_array", name, None, add_array(_vfs, name, array, attrs))

AddLazyArray(name, dtype, fill_value, attrs, get_chunk) ==
    Registered("add_lazy_array", name, get_chunk,
               add_lazy_array(_vfs, name, dtype, fill_value, attrs, get_chunk))

AddNanArray(name, dtype, fill_value, attrs, numpy_raises) ==
    Registered("add_nan_array", name, fill_value,
               add_nan_array(_vfs, name, dtype, fill_value, attrs,
                             numpy_raises))

-----------------------------------------------------------------------------
(* The inputs the model draws from *)

Names == {<<"A">>, <<"A", "B">>}
GetChunks == {Fn("g1"), Fn("g2")}
Exceptions == {"IOError"}

\* the resolver of gen_index_var: for every dimension i the pair (j1, j2) with
\* j1 = chunks[i] * index[i] and j2 = j1 + chunks[i]
index_var_ranges(chunks, ndim, index) ==
    [i \in 1..ndim |-> <<chunks[i] * index[i],
                         chunks[i] * index[i] + chunks[i]>>]

\* A resolver computes its buffer from its arguments (as those of the tests
\* do, from the store's chunks and the index), or fails.
chunk_buffer(inv) == Raw(<<"chunk", inv.get_chunk, inv.name, inv.index>>)
Outcomes(inv) ==
    {<<"return", chunk_buffer(inv)>>} \cup {<<"raise", e>> : e \in Exceptions}

UnitsAttrs == JDict(<< <<"units", JStr("m")>> >>)
ClashAttrs == JDict(<< <<ARRAY_DIMENSIONS, JStrList(<<"x">>)>> >>)

Array2x2 == [shape |-> <<2, 2>>, dtype |-> "<i2",
             data |-> <<JInt(1), JInt(2), JInt(3), JInt(-4)>>]

ServingConfigs == {
    [dims |-> <<"y", "x">>, shape |-> <<2, 3>>, chunks |-> <<1, 2>>] }

\* keys that a client may ask for, registered or not: a group document, an
\* array document, a bare name, chunk keys of both arrays, an unknown key
QueryKeys ==
    {ZGROUP, <<"A">> \o Slash \o ZARRAY, <<"Z">>, chunk_key(<<"A">>, <<0, 0>>)}
ReadKeys ==
    QueryKeys \cup {<<"A">>}
    \cup {chunk_key(n, i) : n \in Names, i \in {<<0, 0>>, <<1, 0>>}}

\* worker threads are interchangeable: a read goes to the first idle one
FirstIdle(w) == pc[w] = "idle" /\ \A v \in Workers : pc[v] = "idle" => w <= v

InitStore(configs) ==
    \E c \in configs, attrs \in {None}, g \in {None, Fn("g0")} :
        /\ _ndim = Len(c.dims)
        /\ _dims = c.dims
        /\ _shape = c.shape
        /\ _chunks = c.chunks
        /\ _get_chunk = g
        /\ _vfs = init_vfs(attrs)

InitRest ==
    /\ pc = [w \in Workers |-> "idle"]
    /\ frame = [w \in Workers |-> NoFrame]
    /\ calls = EmptyBag
    /\ reads = EmptyBag
    /\ failed = {}
    /\ nadds = 0
    /\ tasks = {}
    /\ last = Event("init", <<>>, None, "return", None, <<>>)

Init == InitStore(ServingConfigs) /\ InitRest

\* the bound on the history a behaviour accumulates
WithinBound == nadds + BagCardinality(reads) < MaxOps

\* whether store[key] reaches a resolver
IsLazy(k) == dict_has(_vfs, k) /\ isinstance_tuple(dict_get(_vfs, k))

Next ==
    \/ \E n \in Names :
          WithinBound /\ AddArray(n, Array2x2, UnitsAttrs)
    \/ \E n \in Names, g \in {None, Fn("g1")} :
          WithinBound /\ AddLazyArray(n, "<f4", None, None, g)
    \/ \E n \in Names :
          WithinBound /\ AddNanArray(n, "|u1", None, None, FALSE)
    \/ \E w \in Workers, k \in ReadKeys :
          /\ FirstIdle(w)
          /\ IsLazy(k) => WithinBound
          /\ GetItem(w, k)
          /\ UNCHANGED tasks
    \/ \E w \in Workers :
          /\ pc[w] = "get_chunk"
          /\ \E o \in Outcomes(frame[w].inv) : GetItemReturn(w, o)
    \/ \E k \in QueryKeys : SetItem(k, Raw(<<0>>))
    \/ \E k \in QueryKeys : DelItem(k)
    \/ \E k \in QueryKeys : Contains(k)
    \/ \E k \in QueryKeys : GetSize(k)
    \/ LenOp
    \/ IterOp
    \/ KeysOp
    \/ \E k \in Names \cup {<<>>} : ListDir(k)

Spec == Init /\ [][Next]_vars

-----------------------------------------------------------------------------
(* Registration alone, over more store geometries and arguments *)

MaxRegs == 2       \* add_* calls per behaviour of SpecRegister

RegisterConfigs == ServingConfigs \cup {
    [dims |-> <<>>, shape |-> <<>>, chunks |-> <<>>],
    [dims |-> <<"x">>, shape |-> <<2>>, chunks |-> <<1>>],
    [dims |-> <<"x">>, shape |-> <<12>>, chunks |-> <<1>>],
    [dims |-> <<"y", "x">>, shape |-> <<1, 2>>, chunks |-> <<2, 1>>],
    [dims |-> <<"time", "y", "x">>, shape |-> <<4, 8, 16>>,
     chunks |-> <<2, 4, 8>>],
    [dims |-> <<"y", "x">>, shape |-> <<4, 2>>, chunks |-> <<2>>],
    [dims |-> <<"time", "y", "x">>, shape |-> <<4, 2, 2>>,
     chunks |-> <<2, 2>>] }

InitRegister == InitStore(RegisterConfigs) /\ InitRest

NextRegister ==
    \/ \E n \in Names :
          nadds < MaxRegs /\ AddArray(n, Array2x2, UnitsAttrs)
    \/ \E n \in Names, at \in {None, UnitsAttrs, ClashAttrs},
          g \in GetChunks \cup {None} :
          nadds < MaxRegs /\ AddLazyArray(n, "<f4", None, at, g)
    \/ \E n \in Names, fv \in {None, JInt(7)} :
          nadds < MaxRegs /\ AddNanArray(n, "|u1", fv, None, FALSE)

SpecRegister == InitRegister /\ [][NextRegister]_vars

-----------------------------------------------------------------------------
(* Materialization of one lazy array by a pool of worker threads, as in
   test_concurrency_is_provided: the array is registered, then every chunk
   key is read once, by whichever worker is free. *)

TEST == <<"T", "E", "S", "T">>

MaterializeConfigs == {
    [dims |-> <<"time", "y", "x">>, shape |-> <<4, 8, 16>>,
     chunks |-> <<2, 4, 8>>],
    [dims |-> <<"y", "x">>, shape |-> <<2, 3>>, chunks |-> <<1, 2>>] }

\* the chunk keys of array `name` in vfs
chunk_keys(vfs, name) ==
    {vfs[i][1] : i \in {j \in 1..Len(vfs) : isinstance_tuple(vfs[j][2])
                                            /\ vfs[j][2].name = name}}

InitMaterialize ==
    /\ \E c \in MaterializeConfigs :
          /\ _ndim = Len(c.dims)
          /\ _dims = c.dims
          /\ _shape = c.shape
          /\ _chunks = c.chunks
    /\ _get_chunk = None
    /\ _vfs = add_lazy_array(init_vfs(None), TEST, "<f8", None, None,
                             Fn("g1")).vfs
    /\ tasks = chunk_keys(_vfs, TEST)
    /\ pc = [w \in Workers |-> "idle"]
    /\ frame = [w \in Workers |-> NoFrame]
    /\ calls = EmptyBag
    /\ reads = EmptyBag
    /\ failed = {}
    /\ nadds = 1
    /\ last = Event("add_lazy_array", TEST, Fn("g1"), "return", "", <<>>)

NextMaterialize ==
    \/ \E w \in Workers, k \in tasks :
          /\ GetItem(w, k)
          /\ tasks' = tasks \ {k}
    \/ \E w \in Workers :
          /\ pc[w] = "get_chunk"
          /\ GetItemReturn(w, <<"return", chunk_buffer(frame[w].inv)>>)

SpecMaterialize == InitMaterialize /\ [][NextMaterialize]_vars

-----------------------------------------------------------------------------
(* Registration followed by reads and listings by one client thread: arrays
   of a rank of their own, names that nest, and a store built with or without
   global attributes *)

Array3 == [shape |-> <<3>>, dtype |-> "|u1",
           data |-> <<JInt(1), JInt(2), JInt(255)>>]
Arrays == {Array2x2, Array3}

ListingNames == Names \cup {<<"A", "/", "B">>}

\* chunk keys of one-, two- and three-dimensional arrays
ListingKeys ==
    {chunk_key(<<"A">>, i) : i \in {<<0>>, <<0, 0>>, <<0, 0, 0>>}}
    \cup {chunk_key(<<"A", "B">>, <<0, 0>>)}

ListingPrefixes == {<<>>, <<"A">>, <<"A", "/", "B">>, <<"Z">>}

InitListing ==
    /\ \E c \in MaterializeConfigs, attrs \in {None, UnitsAttrs} :
          /\ _ndim = Len(c.dims)
          /\ _dims = c.dims
          /\ _shape = c.shape
          /\ _chunks = c.chunks
          /\ _get_chunk = None
          /\ _vfs = init_vfs(attrs)
          /\ last = Event("init", <<>>, attrs, "return", None, <<>>)
    /\ pc = [w \in Workers |-> "idle"]
    /\ frame = [w \in Workers |-> NoFrame]
    /\ calls = EmptyBag
    /\ reads = EmptyBag
    /\ failed = {}
    /\ nadds = 0
    /\ tasks = {}

NextListing ==
    \/ \E n \in ListingNames, a \in Arrays :
          nadds < MaxRegs /\ AddArray(n, a, UnitsAttrs)
    \/ \E n \in ListingNames :
          nadds < MaxRegs /\ AddLazyArray(n, "<f4", None, None, Fn("g1"))
    \/ \E n \in ListingNames :
          nadds < MaxRegs /\ AddNanArray(n, "|u1", None, None, FALSE)
    \/ \E k \in ListingKeys :
          /\ pc[1] = "idle"
          /\ IsLazy(k) => WithinBound
          /\ GetItem(1, k)
          /\ UNCHANGED tasks
    \/ \E w \in Workers :
          /\ pc[w] = "get_chunk"
          /\ \E o \in Outcomes(frame[w].inv) : GetItemReturn(w, o)
    \/ KeysOp
    \/ IterOp
    \/ \E k \in ListingPrefixes : ListDir(k)

SpecListing == InitListing /\ [][NextListing]_vars

-----------------------------------------------------------------------------
(* add_nan_array over dtypes and fill values, the fill values in and out of
   the range of the dtype; numpy either raises for a value the dtype cannot
   hold or wraps it around, depending on its version *)

NanArgs == {
    <<"|u1", None>>, <<"|i1", None>>, <<"<i2", None>>,
    <<"|u1", JInt(0)>>, <<"|u1", JInt(7)>>,
    <<"|u1", JInt(300)>>, <<"|i1", JInt(-200)>>,
    <<"<f4", None>> }

NanConfigs == MaterializeConfigs \cup {
    [dims |-> <<"x">>, shape |-> <<12>>, chunks |-> <<5>>] }

InitNan == InitStore(NanConfigs) /\ InitRest

NextNan ==
    \E n \in Names, a \in NanArgs, numpy_raises \in BOOLEAN :
        nadds < MaxRegs /\ AddNanArray(n, a[1], a[2], None, numpy_raises)

SpecNan == InitNan /\ [][NextNan]_vars

-----------------------------------------------------------------------------
(* A pool of worker threads materializes one lazy array while the resolver
   hangs on one of its chunks: the thread that asks for that chunk stays
   inside get_chunk for ever. *)

HangConfigs == {
    [dims |-> <<"y", "x">>, shape |-> <<2, 3>>, chunks |-> <<1, 2>>],
    [dims |-> <<"y", "x">>, shape |-> <<4, 4>>, chunks |-> <<2, 2>>] }

\* the invocation the resolver does not return from: the first chunk
Hangs(inv) == \A i \in 1..Len(inv.index) : inv.index[i] = 0

InitHang ==
    /\ \E c \in HangConfigs :
          /\ _ndim = Len(c.dims)
          /\ _dims = c.dims
          /\ _shape = c.shape
          /\ _chunks = c.chunks
    /\ _get_chunk = None
    /\ _vfs = add_lazy_array(init_vfs(None), TEST, "<f8", None, None,
                             Fn("g1")).vfs
    /\ tasks = chunk_keys(_vfs, TEST)
    /\ pc = [w \in Workers |-> "idle"]
    /\ frame = [w \in Workers |-> NoFrame]
    /\ calls = EmptyBag
    /\ reads = EmptyBag
    /\ failed = {}
    /\ nadds = 1
    /\ last = Event("add_lazy_array", TEST, Fn("g1"), "return", "", <<>>)

\* thread w takes a chunk key that is still to be read and reads it
StartRead(w) ==
    \E k \in tasks :
        /\ tasks' = tasks \ {k}
        /\ GetItem(w, k)

\* the resolver that thread w is inside returns, unless it is the one that
\* hangs
FinishRead(w) ==
    /\ pc[w] = "get_chunk"
    /\ ~Hangs(frame[w].inv)
    /\ GetItemReturn(w, <<"return", chunk_buffer(frame[w].inv)>>)

NextHang ==
    \/ \E w \in Workers : StartRead(w)
    \/ \E w \in Workers : FinishRead(w)

\* a thread that can run does run, and a resolver that does not hang returns
\* (a read that starts changes tasks, one that finishes changes pc)
SpecHang ==
    /\ InitHang
    /\ [][NextHang]_vars
    /\ \A w \in Workers : WF_tasks(StartRead(w)) /\ WF_pc(FinishRead(w))

-----------------------------------------------------------------------------
(* Registration of arrays under flat and nested names, followed by len(store)
   and listdir('') *)

CountConfigs == {
    [dims |-> <<>>, shape |-> <<>>, chunks |-> <<>>],
    [dims |-> <<"y", "x">>, shape |-> <<2, 3>>, chunks |-> <<1, 2>>],
    [dims |-> <<"y", "x">>, shape |-> <<1, 2>>, chunks |-> <<2, 1>>],
    [dims |-> <<"time", "y", "x">>, shape |-> <<4, 8, 16>>,
     chunks |-> <<2, 4, 8>>] }

InitCount == InitStore(CountConfigs) /\ InitRest

NextCount ==
    \/ \E n \in ListingNames, a \in Arrays :
          nadds < MaxRegs /\ AddArray(n, a, UnitsAttrs)
    \/ \E n \in ListingNames :
          nadds < MaxRegs /\ AddLazyArray(n, "<f4", None, None, Fn("g1"))
    \/ \E n \in ListingNames :
          nadds < MaxRegs /\ AddNanArray(n, "|u1", None, None, FALSE)
    \/ LenOp
    \/ ListDir(<<>>)

SpecCount == InitCount /\ [][NextCount]_vars

-----------------------------------------------------------------------------
(* Definitions the properties below are stated with *)

\* the number of resolver invocations made by reads of key k
CallsFor(k) ==
    BagCardinality([c \in {d \in BagToSet(calls) : d.key = k} |-> calls[c]])

AllIdle == \A w \in Workers : pc[w] = "idle"

\* the segments of s between the occurrences of ch
RECURSIVE SplitOn(_, _)
SplitOn(s, ch) ==
    IF s = <<>> THEN << <<>> >>
    ELSE LET rest == SplitOn(Tail(s), ch)
         IN  IF s[1] = ch THEN << <<>> >> \o rest
             ELSE << <<s[1]>> \o rest[1] >> \o Tail(rest)

DigitChars == {Digits[d] : d \in 1..10}
DigitValue(c) == (CHOOSE d \in 1..10 : Digits[d] = c) - 1

\* seg is the canonical decimal numeral of a natural number
IsDecimal(seg) ==
    /\ seg # <<>>
    /\ \A i \in 1..Len(seg) : seg[i] \in DigitChars
    /\ Len(seg) > 1 => seg[1] # "0"

RECURSIVE Decimal(_)
Decimal(seg) ==
    IF Len(seg) = 1 THEN DigitValue(seg[1])
    ELSE 10 * Decimal(SubSeq(seg, 1, Len(seg) - 1)) + DigitValue(seg[Len(seg)])

\* key reads '<name>/<i0>.<i1>...<ik>' for index = (i0, .., ik)
KeyReads(key, name, index) ==
    /\ startswith(key, name \o <<"/">>)
    /\ LET file == SubSeq(key, Len(name) + 2, Len(key))
           segs == IF file = <<>> THEN <<>> ELSE SplitOn(file, ".")
       IN  /\ Len(segs) = Len(index)
           /\ \A i \in 1..Len(segs) :
                 IsDecimal(segs[i]) /\ Decimal(segs[i]) = index[i]

\* dims, shape and chunks of the store have one length
ValidGeometry == Len(_dims) = Len(_shape) /\ Len(_shape) = Len(_chunks)

\* g[i] = floor(shape[i] / chunks[i]), for a valid geometry
Grid == [i \in 1..Len(_shape) |-> _shape[i] \div _chunks[i]]

RECURSIVE SeqProduct(_)
SeqProduct(g) == IF g = <<>> THEN 1 ELSE g[1] * SeqProduct(Tail(g))

RECURSIVE SeqMax(_)
SeqMax(g) ==
    IF g = <<>> THEN 0
    ELSE IF g[1] > SeqMax(Tail(g)) THEN g[1] ELSE SeqMax(Tail(g))

\* the Cartesian product of range(g[i]) over all dimensions, as a set
CartesianSet(g) ==
    {s \in [1..Len(g) -> 0..SeqMax(g)] : \A i \in 1..Len(g) : s[i] < g[i]}

\* the last operation was an add_lazy_array that returned
LazyAdded == last.op = "add_lazy_array" /\ last.status = "return"

\* the positions of the chunk keys among the keys the last operation assigned
WrittenChunks ==
    {i \in 1..Len(last.written) :
        last.written[i] \notin {last.key, last.key \o <<"/">> \o ZARRAY,
                                last.key \o <<"/">> \o ZATTRS}}

-----------------------------------------------------------------------------
(* C1: resolution is never memoized.  In every state, for every key whose
   read found a lazy descriptor, the number of reads of the key equals the
   number of resolver invocations those reads made; no invocation is made
   for a key that was not read. *)
C1_NoMemoization ==
    /\ \A k \in BagToSet(reads) : CallsFor(k) = CopiesIn(k, reads)
    /\ \A c \in BagToSet(calls) : BagIn(c.key, reads)
    /\ BagCardinality(calls) = BagCardinality(reads)

\* a lazy key has been read twice, both reads are over, and the resolver was
\* invoked twice for it
C1_Witness ==
    /\ AllIdle
    /\ last.op = "getitem" /\ last.status = "return"
    /\ CopiesIn(last.key, reads) >= 2
    /\ CallsFor(last.key) >= 2

(* C2: a read of a lazy chunk key invokes the resolver bound to the key at
   registration (the one passed to add_lazy_array, else the store's default)
   with this store, the name and the index the key was registered with, and
   returns the resolver's result unchanged. *)
C2_Registered ==
    LazyAdded =>
        \A i \in WrittenChunks :
            LET k == last.written[i]
                v == dict_get(_vfs, k)
            IN  /\ isinstance_tuple(v)
                /\ v.name = last.key
                /\ KeyReads(k, last.key, v.index)
                /\ v.get_chunk =
                       (IF last.arg # None THEN last.arg ELSE _get_chunk)

C2_Invoked ==
    (last.op = "getitem" /\ last.status = "call") =>
        LET v == dict_get(_vfs, last.key)
        IN  /\ isinstance_tuple(v)
            /\ last.value = [get_chunk |-> v.get_chunk, store |-> Self,
                             name |-> v.name, index |-> v.index]
            /\ KeyReads(last.key, last.value.name, last.value.index)

C2_ResultUnchanged ==
    \A w \in Workers :
        (pc[w] = "get_chunk" /\ pc'[w] = "idle" /\ last'.status = "return") =>
            /\ last'.op = "getitem"
            /\ last'.key = frame[w].key
            /\ last'.value = chunk_buffer(frame[w].inv)

\* C2: every registration binds, and every read invokes, the resolver, name and
\* index of the key read, and a read that returns hands on the resolver's buffer
C2_BoundResolverInvoked ==
    /\ [](C2_Registered /\ C2_Invoked)
    /\ [][C2_ResultUnchanged]_vars

\* both arrays are registered lazily with different resolvers, one of them
\* the store's default, and a read of a chunk of the second has returned
C2_Witness ==
    /\ last.op = "getitem" /\ last.status = "return"
    /\ \E k \in BagToSet(calls) :
          /\ k.key = last.key
          /\ k.inv.get_chunk = Fn("g0")
          /\ last.value = chunk_buffer(k.inv)
          /\ \E i \in 1..Len(_vfs) :
                /\ isinstance_tuple(_vfs[i][2])
                /\ _vfs[i][2].name # k.inv.name
                /\ _vfs[i][2].get_chunk = Fn("g1")

(* C3: for a valid geometry with chunks[i] <= shape[i] in every dimension,
   add_lazy_array registers exactly PRODUCT_i floor(shape[i]/chunks[i]) chunk
   keys under the array name, each bound to a lazy descriptor, plus exactly
   one <name>/.zarray key and exactly one <name>/.zattrs key. *)
C3_ChunkKeyCount ==
    (/\ LazyAdded
     /\ ValidGeometry
     /\ \A i \in 1..Len(_shape) : _chunks[i] <= _shape[i]) =>
        /\ Cardinality(WrittenChunks) = SeqProduct(Grid)
        /\ Cardinality({last.written[i] : i \in WrittenChunks})
               = SeqProduct(Grid)
        /\ \A i \in WrittenChunks :
              /\ startswith(last.written[i], last.key \o <<"/">>)
              /\ IsLazy(last.written[i])
        /\ Cardinality({i \in 1..Len(last.written) :
               last.written[i] = last.key \o <<"/">> \o ZARRAY}) = 1
        /\ Cardinality({i \in 1..Len(last.written) :
               last.written[i] = last.key \o <<"/">> \o ZATTRS}) = 1
        /\ Cardinality({i \in 1..Len(_vfs) :
               _vfs[i][1] = last.key \o <<"/">> \o ZARRAY}) = 1
        /\ Cardinality({i \in 1..Len(_vfs) :
               _vfs[i][1] = last.key \o <<"/">> \o ZATTRS}) = 1

\* add_lazy_array has registered the single full chunk of a 3-wide
\* dimension with chunks of 2, beside the two rows of the other dimension
C3_Witness ==
    /\ LazyAdded
    /\ _shape = <<2, 3>> /\ _chunks = <<1, 2>>
    /\ Cardinality(WrittenChunks) = 2

(* C4: the chunk indexes add_lazy_array registers are exactly the Cartesian
   product of range(g[i]), each once; in every state each lazy entry is
   stored under '<name>/<i0>.<i1>...<ik>' for its own name and index, and
   entries with distinct indexes have distinct keys. *)
C4_Keys ==
    /\ \A i \in 1..Len(_vfs) :
          isinstance_tuple(_vfs[i][2]) =>
              KeyReads(_vfs[i][1], _vfs[i][2].name, _vfs[i][2].index)
    /\ \A i, j \in 1..Len(_vfs) :
          (/\ isinstance_tuple(_vfs[i][2]) /\ isinstance_tuple(_vfs[j][2])
           /\ _vfs[i][2].name = _vfs[j][2].name
           /\ _vfs[i][2].index # _vfs[j][2].index) =>
              _vfs[i][1] # _vfs[j][1]
    /\ (LazyAdded /\ ValidGeometry) =>
          /\ {dict_get(_vfs, last.written[i]).index : i \in WrittenChunks}
                 = CartesianSet(Grid)
          /\ Cardinality(WrittenChunks) = Cardinality(CartesianSet(Grid))
          /\ \A i \in WrittenChunks :
                dict_get(_vfs, last.written[i]).name = last.key

\* add_lazy_array has registered the twelve chunks of a one-dimensional
\* array, among them the two-digit index 11
C4_Witness ==
    /\ LazyAdded
    /\ Cardinality(WrittenChunks) = 12
    /\ dict_has(_vfs, last.key \o <<"/", "1", "1">>)
    /\ dict_get(_vfs, last.key \o <<"/", "1", "1">>).index = <<11>>

(* C5: store[key] = value and del store[key] fail with TypeError for every
   key, registered or not and whatever its entry, and leave the entry mapping
   unchanged; a delete of an unregistered key reports TypeError too. *)
C5_Rejected ==
    last.op \in {"setitem", "delitem"} =>
        last.status = "raise" /\ last.value = "TypeError"

C5_Unchanged ==
    last'.op \in {"setitem", "delitem"} => _vfs' = _vfs

\* C5: every set and delete raises TypeError and leaves the mapping unchanged
C5_WritesRejected == []C5_Rejected /\ [][C5_Unchanged]_vars

\* a delete of a key that is not registered, on a store that holds a lazy
\* descriptor, has raised TypeError
C5_Witness ==
    /\ last.op = "delitem"
    /\ ~dict_has(_vfs, last.key)
    /\ last.status = "raise" /\ last.value = "TypeError"
    /\ \E i \in 1..Len(_vfs) : isinstance_tuple(_vfs[i][2])

(* C6: reading a key that is not in the entry mapping fails with KeyError;
   no value is returned, no resolver is invoked and the mapping is unchanged. *)
C6_Step ==
    (last'.op = "getitem" /\ ~dict_has(_vfs, last'.key)) =>
        /\ last'.status = "raise" /\ last'.value = "KeyError"
        /\ calls' = calls /\ reads' = reads
        /\ pc' = pc /\ frame' = frame
        /\ _vfs' = _vfs

\* C6: every read of an unregistered key raises KeyError and changes nothing
C6_UnknownKey == [][C6_Step]_vars

\* a read of an unregistered key has raised KeyError on a store whose
\* resolver has been invoked before
C6_Witness ==
    /\ last.op = "getitem"
    /\ ~dict_has(_vfs, last.key)
    /\ last.status = "raise" /\ last.value = "KeyError"
    /\ BagCardinality(calls) > 0

(* C7: contains, getsize, len, iteration, keys and listdir invoke no
   resolver, whatever the key; only store[key] does. *)
QueryOps == {"contains", "getsize", "len", "iter", "keys", "listdir"}

C7_Step ==
    /\ last'.op \in QueryOps =>
          calls' = calls /\ reads' = reads /\ pc' = pc /\ frame' = frame
    /\ calls' # calls => last'.op = "getitem"

\* C7: no query step invokes a resolver; every invocation is made by a read
C7_QueriesDoNotResolve == [][C7_Step]_vars

\* getsize of a lazy chunk key has returned with no resolver invoked so far
C7_Witness ==
    /\ last.op = "getsize" /\ last.status = "return"
    /\ IsLazy(last.key)
    /\ calls = EmptyBag

(* C8: when the workers read every chunk key of a lazy array once, then
   under every interleaving the resolver is invoked exactly once per
   registered chunk index, every grid index appears exactly once among the
   invocations, each read returns the buffer of its own invocation, and no
   read raises. *)
C8_State ==
    /\ last.op = "getitem" => last.status # "raise"
    /\ \A c \in BagToSet(calls) : CopiesIn(c, calls) = 1
    /\ (tasks = {} /\ AllIdle) =>
          /\ \A k \in chunk_keys(_vfs, TEST) : CallsFor(k) = 1
          /\ {c.inv.index : c \in BagToSet(calls)} = CartesianSet(Grid)
          /\ BagCardinality(calls) = Cardinality(CartesianSet(Grid))

C8_OwnBuffer ==
    \A w \in Workers :
        (pc[w] = "get_chunk" /\ pc'[w] = "idle") =>
            /\ last'.op = "getitem" /\ last'.status = "return"
            /\ last'.key = frame[w].key
            /\ last'.value = chunk_buffer(frame[w].inv)

\* C8: one invocation per chunk index, no read raises, and every read returns
\* the buffer of its own invocation
C8_Materialization == []C8_State /\ [][C8_OwnBuffer]_vars

\* all eight chunks of the (4, 8, 16) array in chunks of (2, 4, 8) are read
C8_Witness ==
    /\ tasks = {} /\ AllIdle
    /\ _shape = <<4, 8, 16>>
    /\ BagCardinality(calls) = 8

(* C9: add_lazy_array without a resolver, on a store without a default
   resolver, fails with ValueError and leaves the entry mapping as it was. *)
C9_Step ==
    (last'.op = "add_lazy_array" /\ last'.arg = None /\ _get_chunk = None) =>
        /\ last'.status = "raise" /\ last'.value = "ValueError"
        /\ last'.written = <<>>
        /\ _vfs' = _vfs

\* C9: every add_lazy_array without any resolver raises ValueError and leaves
\* the mapping unchanged
C9_NoResolver == [][C9_Step]_vars

\* the call has failed on a store that holds an earlier registration
C9_Witness ==
    /\ last.op = "add_lazy_array" /\ last.arg = None /\ _get_chunk = None
    /\ last.status = "raise" /\ last.value = "ValueError"
    /\ ~dict_has(_vfs, last.key \o <<"/">> \o ZARRAY)
    /\ Len(_vfs) > 2

(* C10: an exception of the resolver propagates unchanged from the read that
   triggered it, after one invocation and with no substitute value; a later
   read of the same key invokes the resolver again. *)
C10_Step ==
    /\ failed' # failed =>
          /\ last'.op = "getitem"
          /\ last'.status = "raise" /\ last'.value \in Exceptions
          /\ failed' = failed \cup {last'.key}
          /\ calls' = calls /\ reads' = reads
    /\ \A k \in failed :
          CopiesIn(k, reads') = CopiesIn(k, reads) + 1 =>
              /\ CallsFor(k)' = CallsFor(k) + 1
              /\ last'.op = "getitem" /\ last'.status = "call"
              /\ last'.key = k

\* C10: a resolver's exception ends the read as it is, after one invocation,
\* and a later read of the key invokes the resolver again
C10_FailurePropagates == [][C10_Step]_vars

\* a key whose read has raised the resolver's exception is being read again,
\* and the resolver has been entered for it a second time
C10_Witness ==
    /\ last.op = "getitem" /\ last.status = "call"
    /\ last.key \in failed
    /\ CallsFor(last.key) = 2
    /\ pc[1] = "get_chunk" /\ pc[2] = "idle"

(* C11: if the resolver raises during one worker's read, only that read is
   aborted: every other read in progress stays in its own resolver invocation
   and, when that ends, returns the buffer of its own invocation; the entry
   mapping is unchanged by the failure. *)
C11_Step ==
    \A w \in Workers :
        (pc[w] = "get_chunk" /\ pc'[w] = "idle") =>
            /\ last'.op = "getitem" /\ last'.key = frame[w].key
            /\ last'.status \in {"return", "raise"}
            /\ last'.status = "return" =>
                  /\ last'.value = chunk_buffer(frame[w].inv)
                  /\ failed' = failed
            /\ last'.status = "raise" =>
                  /\ last'.value \in Exceptions
                  /\ failed' = failed \cup {frame[w].key}
            /\ \A v \in Workers \ {w} : pc'[v] = pc[v] /\ frame'[v] = frame[v]
            /\ _vfs' = _vfs

\* C11: a failing read leaves the other reads in progress, and the entry
\* mapping, as they are; each read ends with the outcome of its own invocation
C11_FailureIsolation == [][C11_Step]_vars

\* a read has just raised the resolver's exception while the other worker is
\* still inside the resolver for the same key, its invocation intact
C11_Witness ==
    /\ last.op = "getitem" /\ last.status = "raise"
    /\ \E v \in Workers :
          /\ pc[v] = "get_chunk"
          /\ frame[v].key = last.key
          /\ frame[v].inv.name = dict_get(_vfs, last.key).name
          /\ \A u \in Workers \ {v} : pc[u] = "idle"

(* C12: reads (failing ones included), contains, getsize, len, iteration,
   keys and listdir leave the key set, the key order and every bound entry
   exactly as registered; only the add_* operations change the mapping. *)
AddOps == {"add_array", "add_lazy_array", "add_nan_array"}

C12_Step ==
    /\ last'.op \notin AddOps => _vfs' = _vfs
    /\ _vfs' # _vfs => last'.op \in AddOps /\ nadds' = nadds + 1

\* C12: no step of the read path changes the entry mapping
C12_MappingImmutableUnderReads == [][C12_Step]_vars

\* a read of a lazy key has returned its buffer and the key is still bound to
\* its descriptor, on a store that an earlier read of the key failed on
C12_Witness ==
    /\ last.op = "getitem" /\ last.status = "return"
    /\ IsLazy(last.key)
    /\ last.key \in failed
    /\ AllIdle

(* C13: add_array(name, array, attrs) registers exactly one chunk key,
   '<name>/' followed by the all-zero dot-joined index of the array's rank,
   bound to the array's raw bytes, with a descriptor whose shape and chunks
   are the array's shape, fill_value null, compressor null and order 'C';
   a read of a key bound to bytes returns those bytes and invokes no
   resolver. *)

\* the row-major bytes of the arrays, written out
C13_Bytes(a) ==
    IF a = Array2x2 THEN <<1, 0, 2, 0, 3, 0, 252, 255>> ELSE <<1, 2, 255>>

\* '0', '0.0', '0.0.0' for ranks 1, 2, 3
C13_Zeros(rank) ==
    IF rank = 1 THEN <<"0">>
    ELSE IF rank = 2 THEN <<"0", ".", "0">>
    ELSE <<"0", ".", "0", ".", "0">>

C13_Added(a) ==
    LET name == last'.key
        chunk == name \o <<"/">> \o C13_Zeros(Len(a.shape))
        doc == dict_get(_vfs', name \o <<"/">> \o ZARRAY).data[2][2]
    IN  /\ last'.written = <<name, name \o <<"/">> \o ZARRAY,
                             name \o <<"/">> \o ZATTRS, chunk>>
        /\ dict_get(_vfs', chunk) = Raw(C13_Bytes(a))
        /\ dict_get(doc, "shape") = JIntList(a.shape)
        /\ dict_get(doc, "chunks") = JIntList(a.shape)
        /\ dict_get(doc, "fill_value") = JNull
        /\ dict_get(doc, "compressor") = JNull
        /\ dict_get(doc, "order") = JStr("C")

C13_Step ==
    /\ last'.op = "add_array" =>
          /\ last'.status = "return"
          /\ \E a \in Arrays : C13_Added(a)
    /\ (/\ last'.op = "getitem"
        /\ \A w \in Workers : ~(pc[w] = "get_chunk" /\ pc'[w] = "idle")
        /\ dict_has(_vfs, last'.key)
        /\ ~isinstance_tuple(dict_get(_vfs, last'.key))) =>
          /\ last'.status = "return"
          /\ last'.value = dict_get(_vfs, last'.key)
          /\ calls' = calls /\ reads' = reads /\ pc' = pc

\* C13: add_array writes one chunk, named by the array's rank and holding the
\* array's bytes, under a descriptor of the array's shape; reading it returns
\* the bytes and calls no resolver
C13_AddArrayRoundTrip == [][C13_Step]_vars

\* the chunk of the one-dimensional array, added to a store of higher rank
\* that also holds a lazy array, has been read back
C13_Witness ==
    /\ last.op = "getitem" /\ last.status = "return"
    /\ last.key = <<"A", "/", "0">>
    /\ last.value = Raw(<<1, 2, 255>>)
    /\ _ndim > 1
    /\ \E i \in 1..Len(_vfs) : isinstance_tuple(_vfs[i][2])
    /\ calls = EmptyBag

(* C14: keys() and iteration return all store keys, each once, in the order
   the entries were registered: the two group-level keys first, then the keys
   of each registration in the order it inserted them; the chunk keys of a
   lazy array in the order of the Cartesian product, last dimension fastest. *)

\* the keys of `written`, in order, that are not among `old`
RECURSIVE C14_Fresh(_, _)
C14_Fresh(written, old) ==
    IF written = <<>> THEN <<>>
    ELSE (IF \E i \in 1..Len(old) : old[i] = written[1] THEN <<>>
          ELSE <<written[1]>>)
         \o C14_Fresh(Tail(written), old)

\* index a comes before index b when the last dimension varies fastest
C14_Before(a, b) ==
    \E k \in 1..Len(a) :
        /\ a[k] < b[k]
        /\ \A m \in 1..(k - 1) : a[m] = b[m]

C14_State ==
    /\ Len(_vfs) >= 2 /\ _vfs[1][1] = ZGROUP /\ _vfs[2][1] = ZATTRS
    /\ \A i, j \in 1..Len(_vfs) : i # j => _vfs[i][1] # _vfs[j][1]
    /\ last.op \in {"keys", "iter"} =>
          /\ last.status = "return"
          /\ Len(last.value) = Len(_vfs)
          /\ \A i \in 1..Len(_vfs) : last.value[i] = _vfs[i][1]

C14_Step ==
    /\ last'.op \in AddOps =>
          [i \in 1..Len(_vfs') |-> _vfs'[i][1]]
              = [i \in 1..Len(_vfs) |-> _vfs[i][1]]
                \o C14_Fresh(last'.written, [i \in 1..Len(_vfs) |-> _vfs[i][1]])
    /\ (last'.op = "add_lazy_array" /\ last'.status = "return") =>
          /\ Len(last'.written) >= 3
          /\ SubSeq(last'.written, 1, 3)
                = <<last'.key, last'.key \o <<"/">> \o ZARRAY,
                    last'.key \o <<"/">> \o ZATTRS>>
          /\ \A i, j \in 4..Len(last'.written) :
                i < j => C14_Before(dict_get(_vfs', last'.written[i]).index,
                                    dict_get(_vfs', last'.written[j]).index)

\* C14: keys() and iteration list every key once, in insertion order, and a
\* lazy array's chunk keys are inserted with the last dimension fastest
C14_KeysInRegistrationOrder == []C14_State /\ [][C14_Step]_vars

\* keys() has listed a store whose first registration is the lazy array A on
\* the 2 x 2 x 2 grid, and which holds a second array
C14_Witness ==
    /\ last.op = "keys" /\ last.status = "return"
    /\ Len(last.value) > 13
    /\ SubSeq(last.value, 1, 9)
          = <<ZGROUP, ZATTRS, <<"A">>, <<"A", "/">> \o ZARRAY,
              <<"A", "/">> \o ZATTRS,
              <<"A", "/", "0", ".", "0", ".", "0">>,
              <<"A", "/", "0", ".", "0", ".", "1">>,
              <<"A", "/", "0", ".", "1", ".", "0">>,
              <<"A", "/", "0", ".", "1", ".", "1">> >>

(* C15: listdir(prefix) returns only direct children: for a non-empty prefix
   exactly the registered keys that start with prefix + '/' and contain no
   further '/' after it, for the empty prefix exactly the registered keys
   that contain no '/'; no deeper key and no key outside the prefix. *)
C15_Child(k, prefix) ==
    IF prefix = <<>>
    THEN \A i \in 1..Len(k) : k[i] # "/"
    ELSE /\ Len(k) > Len(prefix)
         /\ \A i \in 1..Len(prefix) : k[i] = prefix[i]
         /\ k[Len(prefix) + 1] = "/"
         /\ \A i \in (Len(prefix) + 2)..Len(k) : k[i] # "/"

C15_Children(prefix) ==
    {_vfs[i][1] : i \in {j \in 1..Len(_vfs) : C15_Child(_vfs[j][1], prefix)}}

\* C15: what listdir returned is exactly the set of direct children of its
\* prefix among the registered keys, each of them once
C15_ListdirDirectChildren ==
    last.op = "listdir" =>
        /\ last.status = "return"
        /\ {last.value[i] : i \in 1..Len(last.value)} = C15_Children(last.key)
        /\ Len(last.value) = Cardinality(C15_Children(last.key))

\* listdir('A') on a store that holds the arrays 'A/B' and 'AB': the name
\* 'A/B' is a child, its documents and the keys of 'AB' are not
C15_Witness ==
    /\ last.op = "listdir" /\ last.key = <<"A">>
    /\ dict_has(_vfs, <<"A", "/", "B", "/">> \o ZARRAY)
    /\ dict_has(_vfs, <<"A", "B", "/">> \o ZARRAY)
    /\ last.value = << <<"A", "/", "B">> >>

(* C16: in every reachable state, whatever add_* calls and reads were made
   (with array names other than the group-level keys), '.zgroup' and
   '.zattrs' are each present exactly once, bound to the payloads written at
   construction: {zarr_format: 2} and the global attributes, empty if none
   were given. *)
C16_Count(key) == Cardinality({i \in 1..Len(_vfs) : _vfs[i][1] = key})

C16_State ==
    /\ C16_Count(ZGROUP) = 1 /\ C16_Count(ZATTRS) = 1
    /\ dict_get(_vfs, ZGROUP)
          = [type |-> "bytes",
             data |-> <<"json",
                        <<"dict", << <<"zarr_format", <<"int", 2>> >> >> >> >>]
    /\ last.op = "init" =>
          dict_get(_vfs, ZATTRS)
              = [type |-> "bytes",
                 data |-> <<"json", IF last.arg = None THEN <<"dict", <<>> >>
                                    ELSE last.arg>>]

C16_Step ==
    /\ dict_get(_vfs', ZGROUP) = dict_get(_vfs, ZGROUP)
    /\ dict_get(_vfs', ZATTRS) = dict_get(_vfs, ZATTRS)

\* C16: the two group-level keys are present once and keep the payloads that
\* construction gave them
C16_GroupKeys == []C16_State /\ [][C16_Step]_vars

\* a store constructed with global attributes, after two registrations and a
\* read, still binds '.zattrs' to them
C16_Witness ==
    /\ nadds = 2
    /\ last.op = "getitem" /\ last.status = "return"
    /\ dict_get(_vfs, ZATTRS).data = <<"json", UnitsAttrs>>
    /\ \E i \in 1..Len(_vfs) : isinstance_tuple(_vfs[i][2])

(* C17: every store satisfies len(dims) = len(shape) = len(chunks) = ndim
   with positive shape and chunk elements, because construction, or a
   registration, with mismatched arity is rejected. *)
C17_ArityHolds ==
    /\ Len(_dims) = _ndim /\ Len(_shape) = _ndim /\ Len(_chunks) = _ndim
    /\ \A i \in 1..Len(_shape) : _shape[i] > 0
    /\ \A i \in 1..Len(_chunks) : _chunks[i] > 0

\* C17: no store on which add_lazy_array has succeeded violates the arity
\* invariant
C17_ArityEnforced == LazyAdded => C17_ArityHolds

(* C18: add_nan_array with an integer dtype and no explicit fill value
   declares the dtype's maximum (255 for 8-bit unsigned) as fill value in the
   array descriptor and registers a chunk payload of PRODUCT(chunks) elements,
   every one of which equals that value. *)

\* the maximum of each integer dtype and its little-endian encoding
C18_Max(dtype) ==
    IF dtype = "|u1" THEN 255 ELSE IF dtype = "|i1" THEN 127 ELSE 32767
C18_MaxBytes(dtype) ==
    IF dtype = "|u1" THEN <<255>>
    ELSE IF dtype = "|i1" THEN <<127>> ELSE <<255, 127>>

\* the descriptor document of the array the last operation was about
C18_Descriptor == dict_get(_vfs, last.key \o <<"/">> \o ZARRAY).data[2][2]

\* the payload of the chunk the last add_nan_array wrote
C18_Payload == dict_get(_vfs, last.written[4]).data[2]

\* payload consists of `count` elements, each the maximum of the dtype
C18_AllMax(payload, dtype, count) ==
    LET e == C18_MaxBytes(dtype)
    IN  /\ Len(payload) = count * Len(e)
        /\ \A i \in 1..Len(payload) : payload[i] = e[((i - 1) % Len(e)) + 1]

\* C18: an add_nan_array call without fill value, for an integer dtype,
\* declares the dtype's maximum and fills the chunk with it
C18_DefaultFillIsMax ==
    (last.op = "add_nan_array" /\ last.arg = None) =>
        /\ last.status = "return"
        /\ LET dtype == dict_get(C18_Descriptor, "dtype")[2]
           IN  dtype \in {"|u1", "|i1", "<i2"} =>
                  /\ dict_get(C18_Descriptor, "fill_value")
                        = <<"int", C18_Max(dtype)>>
                  /\ last.written[4]
                        = last.key \o <<"/">> \o zeros_filename(_ndim)
                  /\ C18_AllMax(C18_Payload, dtype, SeqProduct(_chunks))

\* a 16-bit array without fill value on the store with chunks (2, 4, 8): the
\* payload holds 64 elements
C18_Witness ==
    /\ last.op = "add_nan_array" /\ last.arg = None /\ last.status = "return"
    /\ dict_get(C18_Descriptor, "dtype") = <<"str", "<i2">>
    /\ dict_get(C18_Descriptor, "fill_value") = <<"int", 32767>>
    /\ _chunks = <<2, 4, 8>>
    /\ Len(C18_Payload) = 128

(* C19: add_nan_array with an integer dtype and an explicit fill value
   outside the dtype's range never raises: it falls back to the dtype's
   maximum, which becomes the declared fill value and the value of every
   payload element. *)
C19_OutOfRange == {<<"int", 300>>, <<"int", -200>>}

\* C19: a call with an out-of-range fill value returns, declares the dtype's
\* maximum and fills the chunk with it
C19_FallsBackToMax ==
    (last.op = "add_nan_array" /\ last.arg \in C19_OutOfRange) =>
        /\ last.status = "return"
        /\ LET dtype == dict_get(C18_Descriptor, "dtype")[2]
           IN  /\ dict_get(C18_Descriptor, "fill_value")
                     = <<"int", C18_Max(dtype)>>
               /\ C18_AllMax(C18_Payload, dtype, SeqProduct(_chunks))

(* C20: every registered array N, whether added by add_array, add_lazy_array
   or add_nan_array, has a descriptor N/.zarray with exactly the fields
   zarr_format (= 2), shape, chunks, dtype, fill_value, compressor, filters,
   order, and an attributes document N/.zattrs with an _ARRAY_DIMENSIONS
   attribute that lists the dimension names. *)
C20_Fields ==
    {"zarr_format", "shape", "chunks", "dtype", "fill_value", "compressor",
     "filters", "order"}

\* doc is a descriptor with exactly the eight fields, zarr_format being 2
C20_IsDescriptor(doc) ==
    /\ Len(doc) = 8
    /\ {doc[i][1] : i \in 1..Len(doc)} = C20_Fields
    /\ dict_get(doc, "zarr_format") = <<"int", 2>>

\* the attributes document of the array the last operation was about
C20_Attrs == dict_get(_vfs, last.key \o <<"/">> \o ZATTRS).data[2][2]

C20_HasDimensions ==
    /\ dict_has(C20_Attrs, "_ARRAY_DIMENSIONS")
    /\ dict_get(C20_Attrs, "_ARRAY_DIMENSIONS")
          = <<"list", [i \in 1..Len(_dims) |-> <<"str", _dims[i]>>]>>

\* the claim as it stands: after each successful add_* call the array has the
\* eight-field descriptor and an _ARRAY_DIMENSIONS attribute
C20_AsClaimed ==
    (last.op \in AddOps /\ last.status = "return") =>
        /\ C20_IsDescriptor(C18_Descriptor)
        /\ C20_HasDimensions

\* k ends with '/.zarray'
C20_IsDescriptorKey(k) ==
    /\ Len(k) > 8
    /\ SubSeq(k, Len(k) - 7, Len(k)) = <<"/">> \o ZARRAY

\* C20, amended: every descriptor in the store has exactly the eight fields;
\* after a successful add_lazy_array or add_nan_array the attributes document
\* has _ARRAY_DIMENSIONS listing the store's dims, and after add_array it is
\* the attributes the caller passed, nothing added
C20_Documents ==
    /\ \A i \in 1..Len(_vfs) :
          C20_IsDescriptorKey(_vfs[i][1]) =>
              C20_IsDescriptor(_vfs[i][2].data[2][2])
    /\ (last.op \in {"add_lazy_array", "add_nan_array"}
        /\ last.status = "return") =>
          /\ C20_IsDescriptor(C18_Descriptor)
          /\ C20_HasDimensions
    /\ last.op = "add_array" =>
          /\ last.status = "return"
          /\ C20_IsDescriptor(C18_Descriptor)
          /\ C20_Attrs = << <<"units", <<"str", "m">> >> >>

\* add_array has stored the caller's attributes, without _ARRAY_DIMENSIONS,
\* next to a lazy array whose attributes list the dimensions
C20_Witness ==
    /\ last.op = "add_array" /\ last.status = "return"
    /\ ~dict_has(C20_Attrs, "_ARRAY_DIMENSIONS")
    /\ \E i \in 1..Len(_vfs) :
          /\ isinstance_tuple(_vfs[i][2])
          /\ _vfs[i][2].name # last.key
          /\ dict_has(dict_get(_vfs, _vfs[i][2].name \o <<"/">> \o ZATTRS)
                          .data[2][2], "_ARRAY_DIMENSIONS")

(* C21: the regions a resolver computes from the store's chunks, [j1, j2)
   with j1 = chunks[i] * index[i] and j2 = j1 + chunks[i], tile the array:
   the regions of the registered chunk indices are pairwise disjoint and,
   when chunks[i] divides shape[i] in every dimension, cover [0, shape[i]) in
   every dimension exactly. *)

\* the regions of the chunk indices the last add_lazy_array registered
C21_Regions ==
    {index_var_ranges(_chunks, _ndim, dict_get(_vfs, last.written[i]).index) :
        i \in WrittenChunks}

C21_Disjoint(r, s) ==
    \E d \in 1..Len(r) : r[d][2] <= s[d][1] \/ s[d][2] <= r[d][1]

C21_Inside(p, r) == \A d \in 1..Len(r) : r[d][1] <= p[d] /\ p[d] < r[d][2]

\* the elements of the array, by their position
C21_Points ==
    {p \in [1..Len(_shape) -> 0..SeqMax(_shape)] :
        \A d \in 1..Len(_shape) : p[d] < _shape[d]}

\* C21: the regions of the registered chunks are pairwise disjoint, one per
\* chunk, and where the chunks divide the shape every element of the array
\* lies in exactly one of them
C21_RegionsTile ==
    (LazyAdded /\ ValidGeometry) =>
        /\ Cardinality(C21_Regions) = Cardinality(WrittenChunks)
        /\ \A r, s \in C21_Regions : r # s => C21_Disjoint(r, s)
        /\ (\A d \in 1..Len(_shape) :
                _chunks[d] > 0 /\ _shape[d] % _chunks[d] = 0) =>
              /\ \A p \in C21_Points :
                    Cardinality({r \in C21_Regions : C21_Inside(p, r)}) = 1
              /\ \A r \in C21_Regions :
                    \A d \in 1..Len(r) : 0 <= r[d][1] /\ r[d][2] <= _shape[d]

\* shape (4, 8, 16) in chunks of (2, 4, 8): the eight regions of
\* test_lazy_index_var
C21_Witness ==
    /\ LazyAdded
    /\ _shape = <<4, 8, 16>> /\ _chunks = <<2, 4, 8>>
    /\ C21_Regions = {
          << <<0, 2>>, <<0, 4>>, <<0, 8>> >>,
          << <<2, 4>>, <<0, 4>>, <<0, 8>> >>,
          << <<0, 2>>, <<4, 8>>, <<0, 8>> >>,
          << <<2, 4>>, <<4, 8>>, <<0, 8>> >>,
          << <<0, 2>>, <<0, 4>>, <<8, 16>> >>,
          << <<2, 4>>, <<0, 4>>, <<8, 16>> >>,
          << <<0, 2>>, <<4, 8>>, <<8, 16>> >>,
          << <<2, 4>>, <<4, 8>>, <<8, 16>> >> }

(* C22: add_nan_array registers a materialized single-chunk array: whatever
   the size of the store's chunk grid, exactly one chunk key exists under the
   name afterwards, '<name>/' plus the all-zero dot-joined index of the
   store's rank, bound to a static payload and never to a lazy descriptor. *)

\* the chunk keys present under array `name`: its direct children other than
\* the two documents
C22_ChunkKeysUnder(name) ==
    {_vfs[i][1] : i \in {j \in 1..Len(_vfs) :
        /\ C15_Child(_vfs[j][1], name)
        /\ _vfs[j][1] \notin {name \o <<"/">> \o ZARRAY,
                              name \o <<"/">> \o ZATTRS}}}

\* '', '0', '0.0', '0.0.0' for ranks 0 to 3
C22_Zeros(rank) == IF rank = 0 THEN <<>> ELSE C13_Zeros(rank)

\* C22: after a successful add_nan_array the only chunk key under the name is
\* the all-zero one, and it is bound to bytes
C22_SingleStaticChunk ==
    (last.op = "add_nan_array" /\ last.status = "return") =>
        /\ C22_ChunkKeysUnder(last.key)
              = {last.key \o <<"/">> \o C22_Zeros(_ndim)}
        /\ \A k \in C22_ChunkKeysUnder(last.key) :
              ~isinstance_tuple(dict_get(_vfs, k))

-----------------------------------------------------------------------------
\* C23: the store keeps no state that tells registering from serving.  An
\* add_array, add_lazy_array or add_nan_array call made after reads have been
\* served, or while a read is inside its resolver, is accepted and changes the
\* entry mapping exactly as the same call does on a mapping with the same
\* entries before any read: the outcome is a function of the mapping and the
\* arguments alone.  In no reachable state is a registration with valid
\* arguments rejected.

\* the outcome of the call that `ev` records, made on the mapping vfs
C23_Call(vfs, ev) ==
    IF ev.op = "add_array" THEN add_array(vfs, ev.key, Array2x2, UnitsAttrs)
    ELSE IF ev.op = "add_lazy_array"
         THEN add_lazy_array(vfs, ev.key, "<f4", None, None, ev.arg)
         ELSE add_nan_array(vfs, ev.key, "|u1", None, None, FALSE)

C23_Step ==
    (last'.op \in AddOps /\ nadds' = nadds + 1) =>
        LET out == C23_Call(_vfs, last')
        IN  /\ _vfs' = out.vfs
            /\ last'.status = (IF out.exc = "" THEN "return" ELSE "raise")
            /\ last'.value = out.exc
            /\ last'.written = out.written
            /\ (last'.status = "raise") <=>
                   (last'.op = "add_lazy_array" /\ last'.arg = None
                    /\ _get_chunk = None)

C23_State ==
    \A n \in Names :
        /\ add_array(_vfs, n, Array2x2, UnitsAttrs).exc = ""
        /\ add_lazy_array(_vfs, n, "<f4", None, None, Fn("g1")).exc = ""
        /\ add_nan_array(_vfs, n, "|u1", None, None, FALSE).exc = ""

C23_NoPhases == []C23_State /\ [][C23_Step]_vars

\* an array was registered after a read that went through a resolver was
\* served
C23_Witness ==
    /\ last.op \in AddOps
    /\ last.status = "return"
    /\ last.written # <<>>
    /\ BagCardinality(reads) >= 1
    /\ AllIdle
    /\ \A i \in 1..Len(last.written) : dict_has(_vfs, last.written[i])

-----------------------------------------------------------------------------
\* C24: the store holds no lock across a resolver invocation.  While one
\* thread is inside a resolver that never returns, any other thread can start
\* a read of any chunk key still to be read, and contains, size, length and
\* iteration queries can be answered; every read other than the hung one is
\* eventually started and completed, given that its own resolver returns.

C24_Hung(w) == pc[w] = "get_chunk" /\ Hangs(frame[w].inv)

C24_QueryKeys == {ZGROUP, chunk_key(TEST, <<0, 0>>), <<"Z">>}

C24_Open ==
    (\E h \in Workers : C24_Hung(h)) =>
        /\ \A w \in Workers, k \in tasks :
              pc[w] = "idle" => ENABLED (GetItem(w, k) /\ tasks' = tasks \ {k})
        /\ \A w \in Workers :
              (pc[w] = "get_chunk" /\ ~C24_Hung(w)) => ENABLED FinishRead(w)
        /\ \A k \in C24_QueryKeys : ENABLED Contains(k) /\ ENABLED GetSize(k)
        /\ ENABLED LenOp
        /\ ENABLED IterOp

C24_OthersDone ==
    /\ tasks = {}
    /\ \A w \in Workers : pc[w] = "get_chunk" => C24_Hung(w)
    /\ \A k \in chunk_keys(_vfs, TEST) : CallsFor(k) = 1

C24_HungBlocksOnlyItsWorker == []C24_Open /\ <>[]C24_OthersDone

\* one thread is inside the resolver that hangs, and the last read of the
\* other thread has just returned: every chunk has been asked for
C24_Witness ==
    /\ \E h \in Workers : C24_Hung(h)
    /\ tasks = {}
    /\ last.op = "getitem"
    /\ last.status = "return"
    /\ ~Hangs([index |-> last.value.data[2][4]])
    /\ BagCardinality(reads) = 4

-----------------------------------------------------------------------------
\* C25: every chunk that add_lazy_array registers lies fully inside the
\* array: each index c it registers has (c[i] + 1) * chunks[i] <= shape[i] in
\* every dimension.  Where shape[i] is not a multiple of chunks[i], the call
\* assigns no key whose index is floor(shape[i] / chunks[i]) along i: no such
\* key is bound to a descriptor, and for a name without entries before the
\* call no such key is in the mapping, so that a read of it is a KeyError
\* that reaches no resolver.  Where chunks[i] > shape[i] for some i, the call
\* registers no chunk key at all.

\* the indexes of the chunks that hold the remainder of some dimension
C25_Trailing ==
    {g \in [1..Len(_shape) -> 0..SeqMax(Grid)] :
        /\ \A d \in 1..Len(_shape) :
              g[d] < Grid[d] \/ (g[d] = Grid[d] /\ _shape[d] % _chunks[d] # 0)
        /\ \E d \in 1..Len(_shape) : g[d] = Grid[d]}

C25_Step ==
    (LazyAdded' /\ nadds' = nadds + 1 /\ ValidGeometry) =>
        /\ \A i \in WrittenChunks' :
              LET c == dict_get(_vfs', last'.written[i]).index
              IN  \A d \in 1..Len(_shape) :
                      (c[d] + 1) * _chunks[d] <= _shape[d]
        /\ \A g \in C25_Trailing :
              LET k == chunk_key(last'.key, g)
              IN  /\ \A i \in 1..Len(last'.written) : last'.written[i] # k
                  /\ dict_has(_vfs', k) =>
                         ~isinstance_tuple(dict_get(_vfs', k))
                  /\ dict_has(_vfs', k) => dict_has(_vfs, k)
                  /\ ~dict_has(_vfs, last'.key) => ~dict_has(_vfs', k)
        /\ (\E d \in 1..Len(_shape) : _chunks[d] > _shape[d]) =>
              WrittenChunks' = {}

C25_ChunksInside == [][C25_Step]_vars

\* shape (2, 3) in chunks of (1, 2): the two chunks of the first column are
\* registered, and no key for the second column, which is one element wide
C25_Witness ==
    /\ LazyAdded
    /\ _shape = <<2, 3>>
    /\ _chunks = <<1, 2>>
    /\ {last.written[i] : i \in WrittenChunks} =
           {chunk_key(last.key, <<0, 0>>), chunk_key(last.key, <<1, 0>>)}
    /\ C25_Trailing = {<<0, 1>>, <<1, 1>>}
    /\ \A g \in C25_Trailing : ~dict_has(_vfs, chunk_key(last.key, g))

-----------------------------------------------------------------------------
\* C26: after an array name is registered a second time by any add_*
\* operation, the chunk keys present under the name are exactly those the
\* second registration assigned: no descriptor or payload of the first
\* registration remains under the name.

\* the chunk keys under array `name` in the mapping vfs
C26_ChunkKeys(vfs, name) ==
    {vfs[i][1] : i \in {j \in 1..Len(vfs) :
        /\ C15_Child(vfs[j][1], name)
        /\ vfs[j][1] \notin {name \o <<"/">> \o ZARRAY,
                             name \o <<"/">> \o ZATTRS}}}

C26_Step ==
    (/\ last'.op \in AddOps
     /\ last'.status = "return"
     /\ nadds' = nadds + 1
     /\ dict_has(_vfs, last'.key)) =>
        C26_ChunkKeys(_vfs', last'.key)
            = {last'.written[i] : i \in WrittenChunks'}

C26_NoLeftovers == [][C26_Step]_vars

-----------------------------------------------------------------------------
\* C27: registration is all-or-nothing.  An add_array, add_lazy_array or
\* add_nan_array call that raises leaves the entry mapping exactly as it was
\* before the call: no bare-name, descriptor, attribute or chunk key of the
\* failed registration is present.
C27_Step ==
    (last'.op \in AddOps /\ last'.status = "raise" /\ nadds' = nadds + 1) =>
        /\ _vfs' = _vfs
        /\ last'.written = <<>>

C27_AllOrNothing == [][C27_Step]_vars

-----------------------------------------------------------------------------
\* C28: add_nan_array with an integer dtype and a fill value v that was
\* supplied and lies in the range of the dtype, v = 0 included,
\* declares v as the fill value in the descriptor and fills every element of
\* the payload with v; the maximum of the dtype stands in only for a fill
\* value that was not supplied.

C28_Min(dtype) ==
    IF dtype = "|u1" THEN 0 ELSE IF dtype = "|i1" THEN -128 ELSE -32768

\* the little-endian two's complement bytes of v
C28_Bytes(v, dtype) ==
    IF dtype = "<i2"
    THEN <<(v + 65536) % 256, ((v + 65536) \div 256) % 256>>
    ELSE <<(v + 256) % 256>>

C28_Supplied(dtype) ==
    /\ last.op = "add_nan_array"
    /\ last.arg # None
    /\ last.arg[1] = "int"
    /\ dtype \in {"|u1", "|i1", "<i2"}
    /\ C28_Min(dtype) <= last.arg[2]
    /\ last.arg[2] <= C18_Max(dtype)

C28_SuppliedFillIsKept ==
    \A dtype \in {"|u1", "|i1", "<i2"} :
        (/\ last.op = "add_nan_array"
         /\ last.status = "return"
         /\ dict_get(C18_Descriptor, "dtype")[2] = dtype
         /\ C28_Supplied(dtype)) =>
            /\ dict_get(C18_Descriptor, "fill_value") = last.arg
            /\ LET e == C28_Bytes(last.arg[2], dtype)
               IN  /\ Len(C18_Payload) = SeqProduct(_chunks) * Len(e)
                   /\ \A i \in 1..Len(C18_Payload) :
                         C18_Payload[i] = e[((i - 1) % Len(e)) + 1]

-----------------------------------------------------------------------------
\* C29: every add_* operation also binds the bare key '<name>' to an empty
\* payload.  For a name not registered before, add_lazy_array grows
\* len(store) by PRODUCT_i floor(shape[i] / chunks[i]) + 3, add_array and
\* add_nan_array by 4; len(store) = 2 + SUM over the registered arrays of
\* (3 + its chunk-key count); listdir('') yields exactly '.zgroup',
\* '.zattrs' and the registered array names that contain no '/'.

\* the names that have a descriptor in vfs
C29_Registered(vfs) ==
    {n \in ListingNames : dict_has(vfs, n \o <<"/">> \o ZARRAY)}

\* k is name + '/' + digits and dots
C29_IsChunkKey(k, name) ==
    /\ Len(k) > Len(name)
    /\ \A i \in 1..Len(name) : k[i] = name[i]
    /\ k[Len(name) + 1] = "/"
    /\ \A i \in (Len(name) + 2)..Len(k) : k[i] \in DigitChars \cup {"."}

C29_ChunkKeyCount(vfs, name) ==
    Cardinality({i \in 1..Len(vfs) : C29_IsChunkKey(vfs[i][1], name)})

RECURSIVE C29_Sum(_, _)
C29_Sum(vfs, names) ==
    IF names = {} THEN 0
    ELSE LET n == CHOOSE m \in names : TRUE
         IN  3 + C29_ChunkKeyCount(vfs, n) + C29_Sum(vfs, names \ {n})

C29_Keys == {_vfs[i][1] : i \in 1..Len(_vfs)}

C29_Listed == {last.value[i] : i \in 1..Len(last.value)}

C29_Len ==
    /\ nadds = 0 => dict_keys(_vfs) = <<ZGROUP, ZATTRS>>
    /\ Cardinality(C29_Keys) = 2 + C29_Sum(_vfs, C29_Registered(_vfs))
    /\ last.op = "len" =>
          /\ last.status = "return"
          /\ last.value = Cardinality(C29_Keys)

C29_Step ==
    (last'.op \in AddOps /\ last'.status = "return" /\ nadds' = nadds + 1) =>
        /\ dict_has(_vfs', last'.key)
        /\ dict_get(_vfs', last'.key) = Raw(<<>>)
        /\ ~dict_has(_vfs, last'.key) =>
              Len(_vfs') = Len(_vfs) + 3
                  + (IF last'.op = "add_lazy_array" THEN SeqProduct(Grid)
                     ELSE 1)

\* the claim as stated: listdir('') lists every registered array name
C29_ListsAllNames ==
    (last.op = "listdir" /\ last.key = <<>>) =>
        /\ C29_Listed = {ZGROUP, ZATTRS} \cup C29_Registered(_vfs)
        /\ Len(last.value) = Cardinality(C29_Listed)

C29_StateAsClaimed == C29_Len /\ C29_ListsAllNames

C29_AsClaimed == []C29_StateAsClaimed /\ [][C29_Step]_vars

C29_ListsFlatNames ==
    (last.op = "listdir" /\ last.key = <<>>) =>
        /\ C29_Listed = {ZGROUP, ZATTRS}
              \cup {n \in C29_Registered(_vfs) : not_in("/", n)}
        /\ Len(last.value) = Cardinality(C29_Listed)

C29_State == C29_Len /\ C29_ListsFlatNames

C29_BareKeys == []C29_State /\ [][C29_Step]_vars

\* shape (2, 3) in chunks of (1, 2): 'A' registered lazily, 'AB' by
\* add_nan_array, and len(store) returned 2 + (3 + 2) + (3 + 1)
C29_Witness ==
    /\ last.op = "len"
    /\ last.value = 11
    /\ nadds = 2
    /\ IsLazy(chunk_key(<<"A">>, <<0, 0>>))
    /\ IsLazy(chunk_key(<<"A">>, <<1, 0>>))
    /\ dict_has(_vfs, chunk_key(<<"A", "B">>, <<0, 0>>))
    /\ dict_get(_vfs, <<"A">>) = Raw(<<>>)
    /\ dict_get(_vfs, <<"A", "B">>) = Raw(<<>>)

-----------------------------------------------------------------------------
\* C30: getsize(key) returns the number of bytes of the stored payload for a
\* metadata key and for a materialized chunk key; for a lazy chunk key it
\* returns 3, the length of the stored (name, index, resolver) descriptor,
\* and invokes no resolver; for a key that is not registered it raises
\* KeyError.

\* the number of bytes of a payload: of its octets, or of the text of its
\* JSON document
C30_ByteLength(value) ==
    IF value.data[1] = "json" THEN Len(json_text(value.data[2], 0))
    ELSE Len(value.data[2])

C30_State ==
    last.op = "getsize" =>
        IF ~dict_has(_vfs, last.key)
        THEN last.status = "raise" /\ last.value = "KeyError"
        ELSE /\ last.status = "return"
             /\ LET value == dict_get(_vfs, last.key)
                IN  IF isinstance_tuple(value)
                    THEN last.value = 3
                    ELSE /\ last.value = C30_ByteLength(value)
                         /\ last.key = ZGROUP => last.value = 22
                         /\ last.key = chunk_key(<<"A">>, <<0, 0>>) =>
                               last.value \in {2, 8}

C30_Step ==
    last'.op = "getsize" =>
        calls' = calls /\ reads' = reads /\ pc' = pc /\ _vfs' = _vfs

C30_GetSize == []C30_State /\ [][C30_Step]_vars

\* getsize of a lazy chunk key returned 3 on a store whose chunks hold
\* 1 * 2 elements of 4 bytes, and no resolver has been invoked
C30_Witness ==
    /\ last.op = "getsize"
    /\ last.status = "return"
    /\ last.value = 3
    /\ last.key = chunk_key(<<"A">>, <<0, 0>>)
    /\ IsLazy(last.key)
    /\ dict_get(dict_get(_vfs, <<"A">> \o <<"/">> \o ZARRAY).data[2][2],
                "dtype") = JStr("<f4")
    /\ calls = EmptyBag

====
